---- MODULE Spec2Model ----
(***************************************************************************)
(* A model of the MISS_HIT style checker, miss_hit/mh_style.py: the rules   *)
(* applied to a file and to its lines, the token analysis of                *)
(* stage_3_analysis and the steps of MH_Style.process_wp.                   *)
(*                                                                          *)
(* Texts are TLA+ strings; a character is a string of length one.  Token    *)
(* indices are 1-based (the source's tbuf.tokens[k] is tokens[k + 1]); an   *)
(* optional value (None in the source) is the empty set or a singleton,     *)
(* and an optional reference to a token is its index, 0 for None.           *)
(***************************************************************************)
EXTENDS Integers, Sequences, FiniteSets, TLC

VARIABLES
    pc,                       \* the position in process_wp
    autofix,                  \* wp.options.fix
    cfg,                      \* wp.cfg
    is_embedded,              \* isinstance(wp, Embedded_MATLAB_WP)
    text,                     \* lexer.text
    line_no,                  \* the line Stage 2 is at
    is_blank,                 \* Rule_Line_Blank_Lines.is_blank
    parse_tree,               \* {} for None
    comment_char,             \* tbuf.comment_char
    tokens,                   \* tbuf.tokens
    n,                        \* the index of the token Stage 3 is at
    in_copyright_notice,
    company_copyright_found,
    generic_copyright_found,
    copyright_token,
    copyright_notice,
    statement_start_token,
    current_indent,
    enclosing_ast,
    mh,                       \* the calls made on the Message_Handler, in order
    tabs_corrected,           \* lexer.correct_tabs has been called
    written,                  \* the text given to wp.write_modified, if any
    pass                      \* the analysis pass (2 after a replay)

vars == <<pc, autofix, cfg, is_embedded, text, line_no, is_blank, parse_tree,
          comment_char, tokens, n, in_copyright_notice,
          company_copyright_found, generic_copyright_found, copyright_token,
          copyright_notice, statement_start_token, current_indent,
          enclosing_ast, mh, tabs_corrected, written, pass>>

-----------------------------------------------------------------------------
(* Strings *)

Char(s, i) == SubSeq(s, i, i)

Suffix(s, i) == SubSeq(s, i, Len(s))

StartsWith(s, p) == Len(s) >= Len(p) /\ SubSeq(s, 1, Len(p)) = p

EndsWith(s, p) ==
    Len(s) >= Len(p) /\ SubSeq(s, Len(s) - Len(p) + 1, Len(s)) = p

\* sub in s
Contains(s, sub) ==
    \E i \in 1..(Len(s) - Len(sub) + 1) : SubSeq(s, i, i + Len(sub) - 1) = sub

\* s.index(sub), 0-based; only used when sub is in s
Index(s, sub) ==
    (CHOOSE i \in 1..(Len(s) - Len(sub) + 1) :
        /\ SubSeq(s, i, i + Len(sub) - 1) = sub
        /\ \A j \in 1..(i - 1) : SubSeq(s, j, j + Len(sub) - 1) # sub) - 1

\* The characters that str.strip() removes, among those of Latin-1 (the
\* characters a string of the model can hold): blank, \t, \n, \r, \f, \x0b,
\* \x1c to \x1f, \x85 and \xa0
Whitespace ==
    {" ", "\t", "\n", "\r", "\f",
     "", "", "", "", "", "", " "}

Letters == {"a", "b", "c", "d", "e", "f", "g", "h", "i", "j", "k", "l", "m",
            "n", "o", "p", "q", "r", "s", "t", "u", "v", "w", "x", "y", "z",
            "A", "B", "C", "D", "E", "F", "G", "H", "I", "J", "K", "L", "M",
            "N", "O", "P", "Q", "R", "S", "T", "U", "V", "W", "X", "Y", "Z"}

\* \d: the decimal digits, among the characters of Latin-1
Digits == {"0", "1", "2", "3", "4", "5", "6", "7", "8", "9"}

\* s.lstrip(chars)
RECURSIVE LStrip(_, _)
LStrip(s, chars) ==
    IF Len(s) > 0 /\ Char(s, 1) \in chars THEN LStrip(Tail(s), chars) ELSE s

\* s.rstrip(chars)
RECURSIVE RStrip(_, _)
RStrip(s, chars) ==
    IF Len(s) > 0 /\ Char(s, Len(s)) \in chars
    THEN RStrip(SubSeq(s, 1, Len(s) - 1), chars)
    ELSE s

\* s.strip()
Strip(s) == RStrip(LStrip(s, Whitespace), Whitespace)

\* c.lower(), for a character of Latin-1
LowerChar(c) ==
    CASE c = "A" -> "a" [] c = "B" -> "b" [] c = "C" -> "c" [] c = "D" -> "d"
      [] c = "E" -> "e" [] c = "F" -> "f" [] c = "G" -> "g" [] c = "H" -> "h"
      [] c = "I" -> "i" [] c = "J" -> "j" [] c = "K" -> "k" [] c = "L" -> "l"
      [] c = "M" -> "m" [] c = "N" -> "n" [] c = "O" -> "o" [] c = "P" -> "p"
      [] c = "Q" -> "q" [] c = "R" -> "r" [] c = "S" -> "s" [] c = "T" -> "t"
      [] c = "U" -> "u" [] c = "V" -> "v" [] c = "W" -> "w" [] c = "X" -> "x"
      [] c = "Y" -> "y" [] c = "Z" -> "z" [] c = "À" -> "à" [] c = "Á" -> "á"
      [] c = "Â" -> "â" [] c = "Ã" -> "ã" [] c = "Ä" -> "ä" [] c = "Å" -> "å"
      [] c = "Æ" -> "æ" [] c = "Ç" -> "ç" [] c = "È" -> "è" [] c = "É" -> "é"
      [] c = "Ê" -> "ê" [] c = "Ë" -> "ë" [] c = "Ì" -> "ì" [] c = "Í" -> "í"
      [] c = "Î" -> "î" [] c = "Ï" -> "ï" [] c = "Ð" -> "ð" [] c = "Ñ" -> "ñ"
      [] c = "Ò" -> "ò" [] c = "Ó" -> "ó" [] c = "Ô" -> "ô" [] c = "Õ" -> "õ"
      [] c = "Ö" -> "ö" [] c = "Ø" -> "ø" [] c = "Ù" -> "ù" [] c = "Ú" -> "ú"
      [] c = "Û" -> "û" [] c = "Ü" -> "ü" [] c = "Ý" -> "ý" [] c = "Þ" -> "þ" [] OTHER -> c

\* s.lower()
RECURSIVE Lower(_)
Lower(s) == IF Len(s) = 0 THEN "" ELSE LowerChar(Char(s, 1)) \o Lower(Tail(s))

\* lexer.context_line: the lines of the text (str.splitlines); a final newline
\* ends the last line and opens no further one
RECURSIVE SplitLines(_)
SplitLines(s) ==
    IF Len(s) = 0 THEN <<>>
    ELSE IF ~Contains(s, "\n") THEN <<s>>
    ELSE LET i == Index(s, "\n") + 1
         IN  <<SubSeq(s, 1, i - 1)>> \o SplitLines(Suffix(s, i + 1))

-----------------------------------------------------------------------------
(* Configuration and messages *)

\* config.active(cfg, name)
Active(rule) == rule \in cfg.active

\* mh.style_issue(location, message, fixed) with a location that has a column
Issue(stage, line, col, message, fixed, tok) ==
    [op |-> "style_issue", stage |-> stage, line |-> line, col |-> col,
     message |-> message, fixed |-> fixed, tok |-> tok]

\* mh.style_issue(token.location, message, fixed) in Stage 3
TokenIssue(toks, k, message, fixed) ==
    Issue(3, toks[k].line, toks[k].col_start, message, fixed, k)

\* mh.register_justification(token)
Justification(toks, k) ==
    [op |-> "register_justification", stage |-> 3, line |-> toks[k].line,
     col |-> toks[k].col_start, message |-> "", fixed |-> FALSE, tok |-> k]

-----------------------------------------------------------------------------
(* stage_3_analysis: the neighbours of token k *)

HasPrevInLine(toks, k) == k > 1 /\ toks[k - 1].line = toks[k].line

WsBefore(toks, k) == (toks[k].col_start - toks[k - 1].col_end) - 1

HasNextInLine(toks, k) ==
    /\ k < Len(toks)
    /\ toks[k + 1].line = toks[k].line
    /\ toks[k + 1].kind # "NEWLINE"

WsAfter(toks, k) == (toks[k + 1].col_start - toks[k].col_end) - 1

KEYWORDS_WITH_WS ==
    {"case", "catch", "classdef", "elseif", "for", "function", "global",
     "if", "parfor", "persistent", "switch", "while", "properties",
     "methods", "events"}

COPYRIGHT_LITERAL == "Copyright "

-----------------------------------------------------------------------------
(* stage_3_analysis: the copyright header *)

IsYear(v, q) == q + 3 <= Len(v) /\ \A i \in q..(q + 3) : Char(v, i) \in Digits

\* The position after the year of a notice whose "Copyright " starts at p,
\* 0 when COPYRIGHT_REGEX does not match there:
\* Copyright (\d\d\d\d-)?\d\d\d\d
YearEnd(v, p) ==
    LET q == p + Len(COPYRIGHT_LITERAL)
    IN  IF ~(p + Len(COPYRIGHT_LITERAL) - 1 <= Len(v)
             /\ SubSeq(v, p, p + Len(COPYRIGHT_LITERAL) - 1) = COPYRIGHT_LITERAL)
        THEN 0
        ELSE IF IsYear(v, q) /\ q + 4 <= Len(v) /\ Char(v, q + 4) = "-"
                /\ IsYear(v, q + 5)
        THEN q + 9
        ELSE IF IsYear(v, q) THEN q + 4
        ELSE 0

\* re.search(COPYRIGHT_REGEX, value): {} when there is no match, else the
\* singleton of match.group("org"), the rest of the value after the year of
\* the leftmost match and the blanks that follow it, up to the first line
\* feed ("." matches no line feed).  The optional "(c) " in front of a match
\* moves its start and not its groups.
CopyrightSearch(v) ==
    LET starts == {p \in 1..Len(v) : YearEnd(v, p) # 0}
    IN  IF starts = {} THEN {}
        ELSE LET p == CHOOSE x \in starts : \A y \in starts : x <= y
                 rest == LStrip(Suffix(v, YearEnd(v, p)), {" "})
             IN  {IF Contains(rest, "\n")
                  THEN SubSeq(rest, 1, Index(rest, "\n"))
                  ELSE rest}

\* " or ".join(entity)
RECURSIVE JoinOr(_)
JoinOr(entity) ==
    IF Len(entity) = 0 THEN ""
    ELSE IF Len(entity) = 1 THEN entity[1]
    ELSE entity[1] \o " or " \o JoinOr(Tail(entity))

SeqElems(q) == {q[i] : i \in 1..Len(q)}

\* The loose match: a configured organisation, "(c)" or "copyright" occurs
\* in the comment, in any case
LooseCopyright(v) ==
    \/ \E org \in SeqElems(cfg.copyright_entity) : Contains(Lower(v), Lower(org))
    \/ \E substr \in {"(c)", "copyright"} : Contains(Lower(v), substr)

CopyrightVerdictUnguarded(toks, k, st) ==
    IF Len(st.copyright_notice) = 0 THEN
        <<TokenIssue(toks, k,
            "file does not appear to contain any copyright header", FALSE)>>
    ELSE IF st.company_copyright_found THEN <<>>
    ELSE IF st.generic_copyright_found THEN
        <<TokenIssue(toks, st.copyright_token,
            "Copyright does not mention one of " \o JoinOr(cfg.copyright_entity),
            FALSE)>>
    ELSE IF st.copyright_token # 0 THEN
        <<TokenIssue(toks, st.copyright_token,
            "Copyright notice not in right format", FALSE)>>
    ELSE
        <<TokenIssue(toks, k, "No copyright notice found in header", FALSE)>>

\* The messages as the header ends at token k, from the header state st
CopyrightVerdict(toks, k, st) ==
    IF Len(st.copyright_notice) = 0 THEN
        <<TokenIssue(toks, k,
            "file does not appear to contain any copyright header", FALSE)>>
    ELSE IF st.company_copyright_found THEN <<>>
    ELSE IF st.generic_copyright_found THEN
        IF Len(cfg.copyright_entity) > 0 THEN
            <<TokenIssue(toks, st.copyright_token,
                "Copyright does not mention one of "
                    \o JoinOr(cfg.copyright_entity),
                FALSE)>>
        ELSE <<>>
    ELSE IF st.copyright_token # 0 THEN
        <<TokenIssue(toks, st.copyright_token,
            "Copyright notice not in right format", FALSE)>>
    ELSE
        <<TokenIssue(toks, k, "No copyright notice found in header", FALSE)>>

\* The copyright block of the loop for the (not anonymous) token k, from the
\* header state st; the new header state and the messages
CopyrightStep(toks, k, st) ==
    LET token == toks[k]
        match == CopyrightSearch(token.value)
        org   == CHOOSE o \in match : TRUE
    IN  IF ~st.in_copyright_notice THEN [st EXCEPT !.msgs = <<>>]
        ELSE IF token.kind = "COMMENT" THEN
            [in_copyright_notice |-> TRUE,
             company_copyright_found |->
                IF match # {} /\ Strip(org) \in SeqElems(cfg.copyright_entity)
                THEN TRUE ELSE st.company_copyright_found,
             generic_copyright_found |->
                IF match # {} THEN TRUE ELSE st.generic_copyright_found,
             copyright_token |->
                IF match # {} THEN k
                ELSE IF st.copyright_token = 0 /\ LooseCopyright(token.value)
                THEN k
                ELSE st.copyright_token,
             copyright_notice |-> Append(st.copyright_notice, token.value),
             msgs |-> <<>>]
        ELSE [st EXCEPT !.in_copyright_notice = FALSE,
                        !.msgs = CopyrightVerdict(toks, k, st)]

-----------------------------------------------------------------------------
(* stage_3_analysis: the rules of each token kind.  Each gives the token's   *)
(* fix record and raw text after the rule, and the messages, in order.       *)

Outcome(fix, raw_text, msgs) == [fix |-> fix, raw_text |-> raw_text, msgs |-> msgs]

Unchanged(toks, k) == Outcome(toks[k].fix, toks[k].raw_text, <<>>)

CommaRuleBothBefore(toks, k) ==
    IF ~Active("whitespace_comma") THEN Unchanged(toks, k)
    ELSE Outcome([toks[k].fix EXCEPT !.ensure_trim_before = TRUE,
                                     !.ensure_ws_before = TRUE,
                                     !.ensure_ws_after = TRUE],
                 toks[k].raw_text, <<>>)

CommaRule(toks, k) ==
    IF ~Active("whitespace_comma") THEN Unchanged(toks, k)
    ELSE Outcome(
        [toks[k].fix EXCEPT !.ensure_trim_before = TRUE, !.ensure_ws_after = TRUE],
        toks[k].raw_text,
        IF \/ HasNextInLine(toks, k) /\ WsAfter(toks, k) = 0
           \/ HasPrevInLine(toks, k) /\ WsBefore(toks, k) > 0
        THEN <<TokenIssue(toks, k,
                 "comma cannot be preceeded by whitespace and must be followed by whitespace",
                 TRUE)>>
        ELSE <<>>)

ColonRule(toks, k) ==
    IF ~Active("whitespace_colon") THEN Unchanged(toks, k)
    ELSE IF HasPrevInLine(toks, k) /\ toks[k - 1].kind = "COMMA"
    THEN Unchanged(toks, k)
    ELSE IF HasNextInLine(toks, k) /\ toks[k + 1].kind = "CONTINUATION" THEN
        IF HasPrevInLine(toks, k) /\ WsBefore(toks, k) > 0
        THEN Outcome([toks[k].fix EXCEPT !.ensure_trim_before = TRUE],
                     toks[k].raw_text,
                     <<TokenIssue(toks, k, "no whitespace before colon", TRUE)>>)
        ELSE Unchanged(toks, k)
    ELSE IF \/ HasPrevInLine(toks, k) /\ WsBefore(toks, k) > 0
            \/ HasNextInLine(toks, k) /\ WsAfter(toks, k) > 0
    THEN Outcome([toks[k].fix EXCEPT !.ensure_trim_before = TRUE,
                                     !.ensure_trim_after = TRUE],
                 toks[k].raw_text,
                 <<TokenIssue(toks, k, "no whitespace around colon allowed", TRUE)>>)
    ELSE Unchanged(toks, k)

AssignmentRule(toks, k) ==
    IF ~Active("whitespace_assignment") THEN Unchanged(toks, k)
    ELSE Outcome(
        [toks[k].fix EXCEPT !.ensure_ws_before = TRUE, !.ensure_ws_after = TRUE],
        toks[k].raw_text,
        IF HasPrevInLine(toks, k) /\ WsBefore(toks, k) = 0
        THEN <<TokenIssue(toks, k, "= must be preceeded by whitespace", TRUE)>>
        ELSE IF HasNextInLine(toks, k) /\ WsAfter(toks, k) = 0
        THEN <<TokenIssue(toks, k, "= must be succeeded by whitespace", TRUE)>>
        ELSE <<>>)

BraRule(toks, k) ==
    IF /\ Active("whitespace_brackets")
       /\ HasNextInLine(toks, k) /\ WsAfter(toks, k) > 0
       /\ toks[k + 1].kind # "CONTINUATION"
    THEN Outcome([toks[k].fix EXCEPT !.ensure_trim_after = TRUE],
                 toks[k].raw_text,
                 <<TokenIssue(toks, k,
                     toks[k].raw_text \o " must not be followed by whitespace",
                     TRUE)>>)
    ELSE Unchanged(toks, k)

KetRuleWide(toks, k) ==
    IF /\ Active("whitespace_brackets")
       /\ HasPrevInLine(toks, k) /\ WsBefore(toks, k) > 1
    THEN Outcome([toks[k].fix EXCEPT !.ensure_trim_before = TRUE],
                 toks[k].raw_text,
                 <<TokenIssue(toks, k,
                     toks[k].raw_text \o " must not be preceeded by whitespace",
                     TRUE)>>)
    ELSE Unchanged(toks, k)

KetRule(toks, k) ==
    IF /\ Active("whitespace_brackets")
       /\ HasPrevInLine(toks, k) /\ WsBefore(toks, k) > 0
    THEN Outcome([toks[k].fix EXCEPT !.ensure_trim_before = TRUE],
                 toks[k].raw_text,
                 <<TokenIssue(toks, k,
                     toks[k].raw_text \o " must not be preceeded by whitespace",
                     TRUE)>>)
    ELSE Unchanged(toks, k)

KeywordRule(toks, k) ==
    IF /\ Active("whitespace_keywords")
       /\ HasNextInLine(toks, k) /\ WsAfter(toks, k) = 0
    THEN Outcome([toks[k].fix EXCEPT !.ensure_ws_after = TRUE],
                 toks[k].raw_text,
                 <<TokenIssue(toks, k, "keyword must be succeeded by whitespace",
                              TRUE)>>)
    ELSE Unchanged(toks, k)

\* re.match("^%#[a-zA-Z]", raw)
IsPragma(raw) ==
    Len(raw) >= 3 /\ SubSeq(raw, 1, 2) = "%#" /\ Char(raw, 3) \in Letters

\* re.match("^%# +[a-zA-Z]", raw)
IsSpacedPragma(raw) ==
    /\ Len(raw) >= 4 /\ SubSeq(raw, 1, 3) = "%# "
    /\ LET rest == LStrip(Suffix(raw, 3), {" "})
       IN  Len(rest) > 0 /\ Char(rest, 1) \in Letters

\* re.match("^% +#[a-zA-Z]", raw)
IsSplitPragma(raw) ==
    /\ Len(raw) >= 4 /\ SubSeq(raw, 1, 2) = "% "
    /\ LET rest == LStrip(Suffix(raw, 2), {" "})
       IN  Len(rest) >= 2 /\ Char(rest, 1) = "#" /\ Char(rest, 2) \in Letters

\* raw.strip() in ("%s%s" % (cc, cb) for cc in tbuf.comment_char for cb in "{}")
IsBlockDelimiter(raw) ==
    \E cc \in comment_char : \E cb \in {"{", "}"} : Strip(raw) = cc \o cb

\* c * k
RECURSIVE Repeat(_, _)
Repeat(c, k) == IF k <= 0 THEN "" ELSE c \o Repeat(c, k - 1)

\* raw.lstrip(raw[0])
CommentBody(raw) == LStrip(raw, {Char(raw, 1)})

PragmaKeepsGap(raw) == raw

\* "%#" + raw[2:].strip()
PragmaWithoutGap(raw) == "%#" \o Strip(Suffix(raw, 3))

BodyNotSeparated(raw) ==
    Repeat(Char(raw, 1), Len(raw) - Len(CommentBody(raw))) \o CommentBody(raw)

\* comment_char * (len(raw) - len(comment_body)) + " " + comment_body
SeparatedBody(raw) ==
    Repeat(Char(raw, 1), Len(raw) - Len(CommentBody(raw)))
        \o " " \o CommentBody(raw)

\* The raw text of a comment after the whitespace_comments rule, and the
\* message of the rule ("" when it reports nothing)

CommentRewrite(raw, block_comment) ==
    IF IsPragma(raw) THEN [raw_text |-> raw, message |-> ""]
    ELSE IF StartsWith(raw, "%|") THEN [raw_text |-> raw, message |-> ""]
    ELSE IF block_comment THEN [raw_text |-> raw, message |-> ""]
    ELSE IF IsBlockDelimiter(raw) THEN [raw_text |-> raw, message |-> ""]
    ELSE IF IsSpacedPragma(raw) THEN
        [raw_text |-> PragmaWithoutGap(raw),
         message |-> "MATLAB pragma must not contain whitespace between %# and the pragma"]
    ELSE IF IsSplitPragma(raw) THEN
        [raw_text |-> "%#" \o Suffix(raw, Index(raw, "#") + 2),
         message |-> "MATLAB pragma must not contain whitespace between % and the pragma"]
    ELSE IF Len(CommentBody(raw)) > 0 /\ ~StartsWith(CommentBody(raw), " ") THEN
        [raw_text |-> SeparatedBody(raw),
         message |-> "comment body must be separated with whitespace from the starting "
                        \o Char(raw, 1)]
    ELSE [raw_text |-> raw, message |-> ""]

CommentRule(toks, k) ==
    IF ~Active("whitespace_comments") THEN Unchanged(toks, k)
    ELSE LET rw    == CommentRewrite(toks[k].raw_text, toks[k].block_comment)
             close == HasPrevInLine(toks, k) /\ WsBefore(toks, k) = 0
         IN  Outcome(
                IF close THEN [toks[k].fix EXCEPT !.ensure_ws_before = TRUE]
                ELSE toks[k].fix,
                rw.raw_text,
                (IF rw.message # ""
                 THEN <<TokenIssue(toks, k, rw.message, TRUE)>> ELSE <<>>)
                \o (IF close
                    THEN <<TokenIssue(toks, k,
                             "comment must be preceeded by whitespace", TRUE)>>
                    ELSE <<>>))

FollowedByNewLine(toks, k) == k < Len(toks) /\ toks[k + 1].first_in_line

\* next_token and next_token.kind in ("NEWLINE", "COMMENT")
FollowedByNothing(toks, k) ==
    k < Len(toks) /\ toks[k + 1].kind \in {"NEWLINE", "COMMENT"}

ContinuationRule(toks, k) ==
    LET close == /\ Active("whitespace_continuation")
                 /\ HasPrevInLine(toks, k) /\ WsBefore(toks, k) = 0
        binop == /\ Active("operator_after_continuation")
                 /\ k < Len(toks) /\ toks[k + 1].first_in_line
                 /\ toks[k + 1].kind = "OPERATOR"
                 /\ toks[k + 1].fix.binary_operator
        useless_nl  == /\ Active("useless_continuation")
                       /\ FollowedByNothing(toks, k)
        useless_del == /\ Active("useless_continuation")
                       /\ ~useless_nl
                       /\ k > 1 /\ toks[k - 1].fix.statement_terminator
    IN  Outcome(
            [toks[k].fix EXCEPT
                !.ensure_ws_before = IF close THEN TRUE ELSE @,
                !.replace_with_newline = IF useless_nl THEN TRUE ELSE @,
                !.delete = IF useless_del THEN TRUE ELSE @],
            toks[k].raw_text,
            (IF close
             THEN <<TokenIssue(toks, k,
                      "continuation must be preceeded by whitespace", TRUE)>>
             ELSE <<>>)
            \o (IF binop
                THEN <<TokenIssue(toks, k + 1,
                         "continuations should not start with binary operators",
                         FALSE)>>
                ELSE <<>>)
            \o (IF useless_nl \/ useless_del
                THEN <<TokenIssue(toks, k, "useless line continuation", TRUE)>>
                ELSE <<>>))

SuffixOperators == {".'", "'"}

PowerOperators == {".^", "^"}

OperatorNotSingleSpaced(toks, k) ==
    \/ HasPrevInLine(toks, k) /\ WsBefore(toks, k) # 1
    \/ HasNextInLine(toks, k) /\ WsAfter(toks, k) # 1

\* (prev_in_line and ws_before == 0) or (next_in_line and ws_after == 0)
OperatorTouches(toks, k) ==
    \/ HasPrevInLine(toks, k) /\ WsBefore(toks, k) = 0
    \/ HasNextInLine(toks, k) /\ WsAfter(toks, k) = 0

OperatorRule(toks, k) ==
    LET before == HasPrevInLine(toks, k) /\ WsBefore(toks, k) > 0
        after  == HasNextInLine(toks, k) /\ WsAfter(toks, k) > 0
        touch  == OperatorTouches(toks, k)
    IN  IF ~Active("operator_whitespace") THEN Unchanged(toks, k)
        ELSE IF toks[k].fix.unary_operator THEN
            IF before /\ toks[k].value \in SuffixOperators
            THEN Outcome([toks[k].fix EXCEPT !.ensure_trim_before = TRUE],
                         toks[k].raw_text,
                         <<TokenIssue(toks, k,
                             "suffix operator must not be preceeded by whitespace",
                             TRUE)>>)
            ELSE IF after /\ toks[k].value \notin SuffixOperators
            THEN Outcome([toks[k].fix EXCEPT !.ensure_trim_after = TRUE],
                         toks[k].raw_text,
                         <<TokenIssue(toks, k,
                             "unary operator must not be followed by whitespace",
                             TRUE)>>)
            ELSE Unchanged(toks, k)
        ELSE IF toks[k].fix.binary_operator THEN
            IF toks[k].value \in PowerOperators THEN
                IF before \/ after
                THEN Outcome([toks[k].fix EXCEPT !.ensure_trim_before = TRUE,
                                                 !.ensure_trim_after = TRUE],
                             toks[k].raw_text,
                             <<TokenIssue(toks, k,
                                 "power binary operator must not be surrounded by whitespace",
                                 TRUE)>>)
                ELSE Unchanged(toks, k)
            ELSE IF touch
            THEN Outcome([toks[k].fix EXCEPT !.ensure_ws_before = TRUE,
                                             !.ensure_ws_after = TRUE],
                         toks[k].raw_text,
                         <<TokenIssue(toks, k,
                             "non power binary operator must be surrounded by whitespace",
                             TRUE)>>)
            ELSE Unchanged(toks, k)
        ELSE Unchanged(toks, k)

AnnotationRule(toks, k) ==
    IF ~Active("annotation_whitespace") THEN Unchanged(toks, k)
    ELSE Outcome([toks[k].fix EXCEPT !.ensure_ws_after = TRUE],
                 toks[k].raw_text,
                 IF HasNextInLine(toks, k) /\ WsAfter(toks, k) = 0
                 THEN <<TokenIssue(toks, k,
                          "annotation indication must be succeeded by whitespace",
                          TRUE)>>
                 ELSE <<>>)

NewlineRule(toks, k) ==
    IF k = 1 /\ Active("no_starting_newline")
    THEN Outcome([toks[k].fix EXCEPT !.delete = TRUE],
                 toks[k].raw_text,
                 <<TokenIssue(toks, k, "files should not start with a newline",
                              TRUE)>>)
    ELSE Unchanged(toks, k)

OpenBrackets == {"BRA", "A_BRA", "M_BRA"}

CloseBrackets == {"KET", "A_KET", "M_KET"}

\* The elif chain over token.kind
KindRule(toks, k) ==
    LET kind == toks[k].kind
    IN  IF kind = "COMMA" THEN CommaRule(toks, k)
        ELSE IF kind = "COLON" THEN ColonRule(toks, k)
        ELSE IF kind = "ASSIGNMENT" THEN AssignmentRule(toks, k)
        ELSE IF kind \in OpenBrackets THEN BraRule(toks, k)
        ELSE IF kind \in CloseBrackets THEN KetRule(toks, k)
        ELSE IF kind = "KEYWORD" /\ toks[k].value \in KEYWORDS_WITH_WS
        THEN KeywordRule(toks, k)
        ELSE IF kind = "COMMENT" THEN CommentRule(toks, k)
        ELSE IF kind = "CONTINUATION" THEN ContinuationRule(toks, k)
        ELSE IF kind = "OPERATOR" THEN OperatorRule(toks, k)
        ELSE IF kind = "ANNOTATION" THEN AnnotationRule(toks, k)
        ELSE IF kind = "NEWLINE" THEN NewlineRule(toks, k)
        ELSE Unchanged(toks, k)

-----------------------------------------------------------------------------
(* stage_3_analysis: the loop body *)

\* enclosing_ast after the statement-start bookkeeping for token k, where sst
\* is statement_start_token before it
TrackEnclosing(toks, k, sst, enc) ==
    IF ~toks[k].first_in_statement THEN enc
    ELSE IF sst # 0 /\ toks[sst].kind = "KEYWORD" /\ toks[sst].value = "end"
    THEN {}
    ELSE IF /\ sst # 0 /\ toks[sst].ast_link # {}
            /\ \A a \in toks[sst].ast_link : a.causes_indentation
    THEN toks[sst].ast_link
    ELSE enc

IsJustificationComment(token) ==
    /\ token.kind = "COMMENT"
    /\ Contains(token.value, "mh:ignore_style")

\* "mh:ignore_style" in token.value, for a comment or a continuation
IsJustification(token) ==
    /\ token.kind \in {"COMMENT", "CONTINUATION"}
    /\ Contains(token.value, "mh:ignore_style")

DangerousContinuationAlwaysFixed(toks, k) ==
    LET hit == /\ toks[k].fix.flag_continuations
               /\ HasNextInLine(toks, k) /\ toks[k + 1].kind = "CONTINUATION"
    IN  IF ~hit THEN [tokens |-> toks, msgs |-> <<>>]
        ELSE [tokens |->
                [i \in 1..Len(toks) |->
                    IF i = k THEN [toks[i] EXCEPT !.fix.add_newline = FALSE]
                    ELSE IF i = k + 1
                    THEN [toks[i] EXCEPT !.fix.replace_with_newline = TRUE]
                    ELSE toks[i]],
              msgs |-> <<TokenIssue(toks, k + 1,
                           "this continuation is dangerously misleading", TRUE)>>]

\* The check of continuations after a token that flags them
DangerousContinuation(toks, k) ==
    LET hit == /\ toks[k].fix.flag_continuations
               /\ HasNextInLine(toks, k) /\ toks[k + 1].kind = "CONTINUATION"
        fixed == Active("dangerous_continuation")
    IN  IF ~hit THEN [tokens |-> toks, msgs |-> <<>>]
        ELSE [tokens |->
                [i \in 1..Len(toks) |->
                    IF i = k THEN [toks[i] EXCEPT !.fix.add_newline = FALSE]
                    ELSE IF i = k + 1 /\ fixed
                    THEN [toks[i] EXCEPT !.fix.replace_with_newline = TRUE]
                    ELSE toks[i]],
              msgs |-> <<TokenIssue(toks, k + 1,
                           "this continuation is dangerously misleading", fixed)>>]

\* The indentation rule for token k: whether it applies, current_indent after
\* it and the number of spaces the token should start at
IndentationApplies(toks, k) ==
    /\ Active("indentation") /\ toks[k].kind # "NEWLINE"
    /\ toks[k].first_in_line /\ ~toks[k].block_comment

IndentLevel(toks, k, indent, enc) ==
    IF ~IndentationApplies(toks, k) \/ ~toks[k].first_in_statement THEN indent
    ELSE IF toks[k].ast_link # {}
    THEN (CHOOSE a \in toks[k].ast_link : TRUE).indentation
    ELSE IF enc # {} THEN (CHOOSE a \in enc : TRUE).indentation + 1
    ELSE indent

ContinuationOffset(col, start_col) ==
    IF col - start_col <= 0 THEN cfg.tab_width \div 2 ELSE col - start_col

CorrectSpaces(toks, k, indent, sst) ==
    cfg.tab_width * indent
      + (IF toks[k].first_in_statement THEN 0
         ELSE ContinuationOffset(toks[k].col_start, toks[sst].col_start))

IndentationSkipsUnlinked(toks, k, indent, enc, sst) ==
    LET level   == IndentLevel(toks, k, indent, enc)
        correct == CorrectSpaces(toks, k, level, sst)
    IN  IF \/ ~IndentationApplies(toks, k)
           \/ toks[k].first_in_statement /\ toks[k].ast_link = {} /\ enc = {}
        THEN [tokens |-> toks, current_indent |-> indent, msgs |-> <<>>]
        ELSE [tokens |-> [toks EXCEPT ![k].fix.correct_indent = {correct}],
              current_indent |-> level,
              msgs |->
                IF toks[k].col_start # correct
                THEN <<TokenIssue(toks, k,
                         "indentation not correct, should be " \o ToString(correct)
                            \o " spaces, not " \o ToString(toks[k].col_start),
                         TRUE)>>
                ELSE <<>>]

Indentation(toks, k, indent, enc, sst) ==
    LET level   == IndentLevel(toks, k, indent, enc)
        correct == CorrectSpaces(toks, k, level, sst)
    IN  IF ~IndentationApplies(toks, k)
        THEN [tokens |-> toks, current_indent |-> indent, msgs |-> <<>>]
        ELSE [tokens |-> [toks EXCEPT ![k].fix.correct_indent = {correct}],
              current_indent |-> level,
              msgs |->
                IF toks[k].col_start # correct
                THEN <<TokenIssue(toks, k,
                         "indentation not correct, should be " \o ToString(correct)
                            \o " spaces, not " \o ToString(toks[k].col_start),
                         TRUE)>>
                ELSE <<>>]

SkippedNever(token) == FALSE

\* "Don't ever check anonymous tokens"
Skipped(token) == token.anonymous

\* One iteration of the loop, for token k, from the state s of the analysis
\* (the token buffer, the local variables and the messages so far)
LoopBody(s, k) ==
    LET toks == s.tokens
        enc  == TrackEnclosing(toks, k, s.statement_start_token, s.enclosing_ast)
        sst  == IF toks[k].first_in_statement THEN k ELSE s.statement_start_token
        just == IF IsJustification(toks[k]) THEN <<Justification(toks, k)>> ELSE <<>>
        cr   == CopyrightStep(toks, k,
                    [in_copyright_notice |-> s.in_copyright_notice,
                     company_copyright_found |-> s.company_copyright_found,
                     generic_copyright_found |-> s.generic_copyright_found,
                     copyright_token |-> s.copyright_token,
                     copyright_notice |-> s.copyright_notice,
                     msgs |-> <<>>])
        out  == KindRule(toks, k)
        toks1 == [toks EXCEPT ![k].fix = out.fix, ![k].raw_text = out.raw_text]
        dc   == DangerousContinuation(toks1, k)
        ind  == Indentation(dc.tokens, k, s.current_indent, enc, sst)
    IN  IF Skipped(toks[k])
        THEN [s EXCEPT !.enclosing_ast = enc,
                       !.statement_start_token = sst,
                       !.mh = @ \o just]
        ELSE \* the record of the parts, each computed once
             CHOOSE r \in
                {[tokens |-> i.tokens,
                  in_copyright_notice |-> c.in_copyright_notice,
                  company_copyright_found |-> c.company_copyright_found,
                  generic_copyright_found |-> c.generic_copyright_found,
                  copyright_token |-> c.copyright_token,
                  copyright_notice |-> c.copyright_notice,
                  statement_start_token |-> sst,
                  current_indent |-> i.current_indent,
                  enclosing_ast |-> enc,
                  mh |-> s.mh \o just \o c.msgs \o out.msgs \o dc.msgs \o i.msgs] :
                 c \in {cr}, i \in {ind}} : TRUE

\* The state of the analysis, as a record
Analysis ==
    [tokens |-> tokens,
     in_copyright_notice |-> in_copyright_notice,
     company_copyright_found |-> company_copyright_found,
     generic_copyright_found |-> generic_copyright_found,
     copyright_token |-> copyright_token,
     copyright_notice |-> copyright_notice,
     statement_start_token |-> statement_start_token,
     current_indent |-> current_indent,
     enclosing_ast |-> enclosing_ast,
     mh |-> mh]

\* in_copyright_notice as stage_3_analysis starts
CopyrightActive ==
    Active("copyright_notice") /\ (~is_embedded \/ cfg.copyright_in_embedded_code)

\* One iteration of the loop of stage_3_analysis
Stage3Step ==
    /\ pc = "stage3"
    /\ n <= Len(tokens)
    /\ \E r \in {LoopBody(Analysis, n)} :
           /\ tokens' = r.tokens
           /\ in_copyright_notice' = r.in_copyright_notice
           /\ company_copyright_found' = r.company_copyright_found
           /\ generic_copyright_found' = r.generic_copyright_found
           /\ copyright_token' = r.copyright_token
           /\ copyright_notice' = r.copyright_notice
           /\ statement_start_token' = r.statement_start_token
           /\ current_indent' = r.current_indent
           /\ enclosing_ast' = r.enclosing_ast
           /\ mh' = r.mh
    /\ n' = n + 1
    /\ UNCHANGED <<pc, autofix, cfg, is_embedded, text, line_no, is_blank,
                   parse_tree, comment_char, tabs_corrected, written, pass>>

\* The loop of stage_3_analysis is over: the function returns
Stage3Return ==
    /\ pc = "stage3"
    /\ n > Len(tokens)
    /\ pc' = "analysed"
    /\ UNCHANGED <<autofix, cfg, is_embedded, text, line_no, is_blank,
                   parse_tree, comment_char, tokens, n, in_copyright_notice,
                   company_copyright_found, generic_copyright_found,
                   copyright_token, copyright_notice, statement_start_token,
                   current_indent, enclosing_ast, mh, tabs_corrected, written,
                   pass>>

-----------------------------------------------------------------------------
(* Token buffers: what the lexer and the parser hand to the analysis *)

\* The fix record of a fresh token
NoFix ==
    [ensure_ws_before |-> FALSE, ensure_ws_after |-> FALSE,
     ensure_trim_before |-> FALSE, ensure_trim_after |-> FALSE,
     add_newline |-> FALSE, replace_with_newline |-> FALSE, delete |-> FALSE,
     correct_indent |-> {}, unary_operator |-> FALSE,
     binary_operator |-> FALSE, statement_terminator |-> FALSE,
     flag_continuations |-> FALSE]

\* A token as the lexer describes it before it is placed: its kind, value and
\* raw text, its flags, what the parser attached to it, and its distance
\* (place) from the token before it, or its column when it starts a line
Desc(kind, value, raw_text) ==
    [kind |-> kind, value |-> value, raw_text |-> raw_text, place |-> 0,
     anonymous |-> FALSE, first_in_statement |-> FALSE, ast_link |-> {},
     block_comment |-> FALSE, fix |-> NoFix]

\* A token ends its line when it is a newline, a continuation or a comment
EndsLine(d) == d.kind \in {"NEWLINE", "CONTINUATION", "COMMENT"}

RECURSIVE LineOf(_, _)
LineOf(descs, i) ==
    IF i = 1 THEN 1
    ELSE LineOf(descs, i - 1) + (IF EndsLine(descs[i - 1]) THEN 1 ELSE 0)

RECURSIVE ColOf(_, _)
ColOf(descs, i) ==
    IF i = 1 \/ EndsLine(descs[i - 1]) THEN descs[i].place
    ELSE ColOf(descs, i - 1) + Len(descs[i - 1].raw_text) + descs[i].place

\* The token buffer of a sequence of descriptions: locations follow from the
\* places, and first_in_line from the locations
Layout(descs) ==
    [i \in 1..Len(descs) |->
        [kind |-> descs[i].kind,
         value |-> descs[i].value,
         raw_text |-> descs[i].raw_text,
         line |-> LineOf(descs, i),
         col_start |-> ColOf(descs, i),
         col_end |-> ColOf(descs, i) + Len(descs[i].raw_text) - 1,
         first_in_line |-> (i = 1 \/ EndsLine(descs[i - 1])),
         first_in_statement |-> descs[i].first_in_statement,
         anonymous |-> descs[i].anonymous,
         ast_link |-> descs[i].ast_link,
         block_comment |-> descs[i].block_comment,
         fix |-> descs[i].fix]]

\* An AST node a token is linked to: causes_indentation() and get_indentation()
Node(causes, level) == [causes_indentation |-> causes, indentation |-> level]

AllRules ==
    {"file_length", "line_length", "copyright_notice", "whitespace_comma",
     "whitespace_colon", "whitespace_assignment", "whitespace_brackets",
     "whitespace_keywords", "whitespace_comments", "whitespace_continuation",
     "operator_after_continuation", "useless_continuation",
     "dangerous_continuation", "operator_whitespace", "implicit_shortcircuit",
     "annotation_whitespace", "no_starting_newline", "indentation"}

\* A configuration with the given optional rules enabled
Config(active, entity) ==
    [active |-> active, tab_width |-> 4, file_length |-> 2, line_length |-> 2,
     copyright_entity |-> entity, copyright_in_embedded_code |-> FALSE]

-----------------------------------------------------------------------------
(* The analysis of one token between two neighbours *)

MaxGap == 2

Gaps == 0..MaxGap

Starts(d, link) == [d EXCEPT !.first_in_statement = TRUE, !.ast_link = link]

Flags(d, terminator, flag) ==
    [d EXCEPT !.fix.statement_terminator = terminator,
              !.fix.flag_continuations = flag]

Unary(d) == [d EXCEPT !.fix.unary_operator = TRUE]

Binary(d) == [d EXCEPT !.fix.binary_operator = TRUE]

\* Every kind of token the analysis tells apart
TokenShapes ==
    {Desc("IDENTIFIER", "x", "x"),
     Desc("COMMA", ",", ","),
     Desc("COLON", ":", ":"),
     Desc("ASSIGNMENT", "=", "="),
     Desc("BRA", "(", "("),
     Desc("KET", ")", ")"),
     Desc("KEYWORD", "if", "if"),
     Desc("KEYWORD", "end", "end"),
     Desc("COMMENT", "x", "%x"),
     Desc("COMMENT", "ok", "%# ok"),
     Desc("COMMENT", "#ok", "% #ok"),
     Desc("COMMENT", "mh:ignore_style", "% mh:ignore_style"),
     [Desc("COMMENT", "x", "%x") EXCEPT !.block_comment = TRUE],
     Desc("CONTINUATION", "", "..."),
     Desc("CONTINUATION", "mh:ignore_style", "... mh:ignore_style"),
     Unary(Desc("OPERATOR", "-", "-")),
     Unary(Desc("OPERATOR", "'", "'")),
     Binary(Desc("OPERATOR", "^", "^")),
     Binary(Desc("OPERATOR", "+", "+")),
     Desc("OPERATOR", "+", "+"),
     Desc("ANNOTATION", "", "%|"),
     Desc("NEWLINE", "\n", "\n"),
     Flags(Desc("SEMICOLON", ";", ";"), TRUE, FALSE)}

\* The token before: the first token of the buffer, which starts a statement
FirstTokens ==
    {Starts(Desc("IDENTIFIER", "x", "x"), {Node(TRUE, 1)}),
     Starts(Flags(Desc("IDENTIFIER", "x", "x"), FALSE, TRUE), {}),
     Starts(Flags(Desc("SEMICOLON", ";", ";"), TRUE, TRUE), {}),
     Starts(Desc("COMMA", ",", ","), {}),
     Starts(Desc("NEWLINE", "\n", "\n"), {}),
     Starts(Desc("CONTINUATION", "", "..."), {})}

\* The token analysed: of any kind, plain, anonymous, or starting a statement
\* with or without a link to the AST
MiddleTokens ==
    UNION {{d, [d EXCEPT !.anonymous = TRUE], Starts(d, {}),
            Starts(d, {Node(FALSE, 0)})} : d \in TokenShapes}

\* The token after
LastTokens ==
    {Desc("IDENTIFIER", "x", "x"),
     Desc("CONTINUATION", "", "..."),
     Desc("NEWLINE", "\n", "\n"),
     Desc("COMMENT", "x", "% x"),
     Binary(Desc("OPERATOR", "+", "+"))}

TokenWindows ==
    {Layout(<<a, [b EXCEPT !.place = g], [c EXCEPT !.place = h]>>) :
        a \in FirstTokens, b \in MiddleTokens, c \in LastTokens,
        g \in Gaps, h \in Gaps}

\* The locals of stage_3_analysis as it starts on the buffer toks
AnalysisStarts(toks) ==
    /\ tokens = toks
    /\ n = 1
    /\ in_copyright_notice = CopyrightActive
    /\ company_copyright_found = FALSE
    /\ generic_copyright_found = FALSE
    /\ copyright_token = 0
    /\ copyright_notice = <<>>
    /\ statement_start_token = 0
    /\ current_indent = 0
    /\ enclosing_ast = {}

\* What process_wp has not touched when only the analysis is run
NoFile ==
    /\ autofix = FALSE
    /\ text = ""
    /\ line_no = 0
    /\ is_blank = FALSE
    /\ parse_tree = {}
    /\ tabs_corrected = FALSE
    /\ written = {}

InitTokens ==
    /\ pc = "stage3"
    /\ pass = 1
    /\ NoFile
    /\ is_embedded = FALSE
    /\ comment_char = {"%"}
    /\ cfg \in {Config({}, <<>>), Config(AllRules, <<>>)}
    /\ mh = <<>>
    /\ \E toks \in TokenWindows : AnalysisStarts(toks)

NextTokens == Stage3Step \/ Stage3Return

\* stage_3_analysis on one token between two neighbours
SpecTokens == InitTokens /\ [][NextTokens]_vars

-----------------------------------------------------------------------------
(* The analysis of the lines a=1;, f(1,2) and x = 1 ..., with every spacing *)

\* a=1;
AssignmentLine ==
    <<Starts(Desc("IDENTIFIER", "a", "a"), {Node(FALSE, 0)}),
      Desc("ASSIGNMENT", "=", "="),
      Desc("NUMBER", "1", "1"),
      Flags(Desc("SEMICOLON", ";", ";"), TRUE, FALSE)>>

\* f(1,2)
CallLine ==
    <<Starts(Desc("IDENTIFIER", "f", "f"), {Node(FALSE, 0)}),
      Desc("BRA", "(", "("),
      Desc("NUMBER", "1", "1"),
      Desc("COMMA", ",", ","),
      Desc("NUMBER", "2", "2"),
      Desc("KET", ")", ")")>>

\* x = 1 ... and, on the next line, + 2;
ContinuedLine ==
    <<Starts(Desc("IDENTIFIER", "x", "x"), {Node(FALSE, 0)}),
      Desc("ASSIGNMENT", "=", "="),
      Desc("NUMBER", "1", "1"),
      Desc("CONTINUATION", "", "..."),
      Binary(Desc("OPERATOR", "+", "+")),
      Desc("NUMBER", "2", "2"),
      Flags(Desc("SEMICOLON", ";", ";"), TRUE, FALSE)>>

\* x = 1 ... and an empty line
DanglingLine ==
    <<Starts(Desc("IDENTIFIER", "x", "x"), {Node(FALSE, 0)}),
      Desc("ASSIGNMENT", "=", "="),
      Desc("NUMBER", "1", "1"),
      Desc("CONTINUATION", "", "..."),
      Desc("NEWLINE", "\n", "\n")>>

\* The descriptions with the given gaps between them, from column 0
Spaced(descs, gaps) ==
    [i \in 1..Len(descs) |->
        [descs[i] EXCEPT !.place = IF i = 1 THEN 0 ELSE gaps[i - 1]]]

ScenarioLines ==
    {Layout(Spaced(descs, gaps)) :
        descs \in {AssignmentLine},
        gaps \in [1..(Len(AssignmentLine) - 1) -> Gaps]}
    \cup
    {Layout(Spaced(descs, gaps)) :
        descs \in {CallLine},
        gaps \in [1..(Len(CallLine) - 1) -> Gaps]}
    \cup
    {Layout(Spaced(descs, gaps)) :
        descs \in {ContinuedLine},
        gaps \in [1..(Len(ContinuedLine) - 1) -> Gaps]}
    \cup
    {Layout(Spaced(descs, gaps)) :
        descs \in {DanglingLine},
        gaps \in [1..(Len(DanglingLine) - 1) -> Gaps]}

ScenarioRules ==
    {"whitespace_assignment", "whitespace_comma", "whitespace_brackets",
     "useless_continuation"}

InitScenarios ==
    /\ pc = "stage3"
    /\ pass = 1
    /\ NoFile
    /\ is_embedded = FALSE
    /\ comment_char = {"%"}
    /\ \E active \in SUBSET ScenarioRules : cfg = Config(active, <<>>)
    /\ mh = <<>>
    /\ \E toks \in ScenarioLines : AnalysisStarts(toks)

\* stage_3_analysis on the example lines
SpecScenarios == InitScenarios /\ [][NextTokens]_vars

-----------------------------------------------------------------------------
(* The analysis of file headers *)

MaxHeader == 2

\* What a header is made of: comments with and without a notice, one of them
\* with a carriage return after the organisation, and an anonymous token
HeaderTokens ==
    {Desc("COMMENT", "Copyright 2020 Acme Ltd", "% Copyright 2020 Acme Ltd"),
     Desc("COMMENT", "(c) Copyright 2019-2020  Globex",
                     "% (c) Copyright 2019-2020  Globex"),
     Desc("COMMENT", "Copyright 2020 Acme Ltd\r", "% Copyright 2020 Acme Ltd\r"),
     Desc("COMMENT", "Copyright 2020", "% Copyright 2020"),
     Desc("COMMENT", "copyright 20 acme ltd", "% copyright 20 acme ltd"),
     Desc("COMMENT", "by ACME LTD", "% by ACME LTD"),
     Desc("COMMENT", "hello", "% hello"),
     [Desc("IDENTIFIER", "x", "x") EXCEPT !.anonymous = TRUE]}

RECURSIVE Headers(_)
Headers(len) ==
    IF len = 0 THEN {<<>>}
    ELSE LET shorter == Headers(len - 1)
         IN  shorter \cup {Append(h, d) : h \in shorter, d \in HeaderTokens}

\* What follows the header: nothing, or the token that ends it and then
\* possibly another comment with a notice
HeaderEnds ==
    {<<>>,
     <<Desc("IDENTIFIER", "x", "x")>>,
     <<Desc("NEWLINE", "\n", "\n")>>,
     <<Desc("NEWLINE", "\n", "\n"),
       Desc("COMMENT", "Copyright 2020 Globex", "% Copyright 2020 Globex")>>,
     <<Desc("KEYWORD", "function", "function"),
       Desc("COMMENT", "hello", "% hello"),
       Desc("IDENTIFIER", "x", "x")>>}

StartsFirst(descs) ==
    [i \in 1..Len(descs) |->
        IF i = 1 THEN Starts(descs[i], {}) ELSE descs[i]]

Files ==
    {Layout(StartsFirst(h \o e)) : h \in Headers(MaxHeader), e \in HeaderEnds}
        \ {<<>>}

Entities ==
    {<<>>, <<"Acme Ltd">>, <<"Globex">>, <<"Globex", "Acme Ltd">>}

InitCopyright ==
    /\ pc = "stage3"
    /\ pass = 1
    /\ NoFile
    /\ is_embedded \in BOOLEAN
    /\ comment_char = {"%"}
    /\ \E active \in {{}, {"copyright_notice"}} :
       \E entity \in Entities :
       \E embedded \in BOOLEAN :
          cfg = [Config(active, entity) EXCEPT
                    !.copyright_in_embedded_code = embedded]
    /\ mh = <<>>
    /\ \E toks \in Files : AnalysisStarts(toks)

\* stage_3_analysis on file headers
SpecCopyright == InitCopyright /\ [][NextTokens]_vars

\* Headers without a notice, with a notice and with an anonymous token
PlainHeaderTokens ==
    {Desc("COMMENT", "Copyright 2020 Acme Ltd", "% Copyright 2020 Acme Ltd"),
     Desc("COMMENT", "hello", "% hello"),
     [Desc("IDENTIFIER", "x", "x") EXCEPT !.anonymous = TRUE]}

RECURSIVE PlainHeaders(_)
PlainHeaders(len) ==
    IF len = 0 THEN {<<>>}
    ELSE LET shorter == PlainHeaders(len - 1)
         IN  shorter \cup {Append(h, d) : h \in shorter, d \in PlainHeaderTokens}

PlainFiles ==
    {Layout(StartsFirst(h \o e)) :
        h \in PlainHeaders(MaxHeader),
        e \in {<<>>, <<Desc("IDENTIFIER", "x", "x")>>}}
        \ {<<>>}

InitVerdict ==
    /\ pc = "stage3"
    /\ pass = 1
    /\ NoFile
    /\ is_embedded = FALSE
    /\ comment_char = {"%"}
    /\ cfg \in {Config({"copyright_notice"}, entity) :
                  entity \in {<<>>, <<"Acme Ltd">>, <<"Globex">>}}
    /\ mh = <<>>
    /\ \E toks \in PlainFiles : AnalysisStarts(toks)

\* stage_3_analysis on file headers; the loop is over a finite list of
\* tokens, so every iteration is taken and the function returns
SpecVerdict == InitVerdict /\ [][NextTokens]_vars /\ WF_vars(NextTokens)

-----------------------------------------------------------------------------
(* The rules on the file and on its lines *)

\* mh.style_issue(Location(filename, line), message, fixed): no column
LineIssue(stage, line, message, fixed) ==
    Issue(stage, line, -1, message, fixed, 0)

\* Rule_File_Length.apply
RuleFileLength(full_text, lines) ==
    IF Len(lines) > cfg.file_length
    THEN <<LineIssue(1, Len(lines),
              "file exceeds " \o ToString(cfg.file_length) \o " lines", FALSE)>>
    ELSE <<>>

RuleFileEOFLinesBlank(full_text, lines) ==
    IF Len(lines) >= 2 /\ Len(Strip(lines[Len(lines)])) = 0
    THEN <<LineIssue(1, Len(lines), "trailing blank lines at end of file", TRUE)>>
    ELSE IF Len(full_text) > 0 /\ Char(full_text, Len(full_text)) # "\n"
    THEN <<LineIssue(1, Len(lines), "file should end with a new line", TRUE)>>
    ELSE <<>>

\* Rule_File_EOF_Lines.apply
RuleFileEOFLines(full_text, lines) ==
    IF Len(lines) >= 2 /\ lines[Len(lines)] = ""
    THEN <<LineIssue(1, Len(lines), "trailing blank lines at end of file", TRUE)>>
    ELSE IF Len(full_text) > 0 /\ Char(full_text, Len(full_text)) # "\n"
    THEN <<LineIssue(1, Len(lines), "file should end with a new line", TRUE)>>
    ELSE <<>>

\* Rule_Line_Length.apply
RuleLineLength(l, line) ==
    IF Len(line) > cfg.line_length
    THEN <<Issue(2, l, cfg.line_length,
              "line exceeds " \o ToString(cfg.line_length) \o " characters",
              FALSE, 0)>>
    ELSE <<>>

RuleLineBlankLinesNoReset(l, line, blank) ==
    IF Len(Strip(line)) > 0 THEN [msgs |-> <<>>, is_blank |-> blank]
    ELSE IF blank
    THEN [msgs |-> <<LineIssue(2, l, "more than one consecutive blank line", TRUE)>>,
          is_blank |-> blank]
    ELSE [msgs |-> <<>>, is_blank |-> TRUE]

\* Rule_Line_Blank_Lines.apply, from the flag blank of the rule's instance
RuleLineBlankLines(l, line, blank) ==
    IF Len(Strip(line)) > 0 THEN [msgs |-> <<>>, is_blank |-> FALSE]
    ELSE IF blank
    THEN [msgs |-> <<LineIssue(2, l, "more than one consecutive blank line", TRUE)>>,
          is_blank |-> blank]
    ELSE [msgs |-> <<>>, is_blank |-> TRUE]

\* Rule_Line_Tabs.apply
RuleLineTabs(l, line) ==
    IF Contains(line, "\t")
    THEN <<Issue(2, l, Index(line, "\t"), "tab is not allowed", TRUE, 0)>>
    ELSE <<>>

RuleLineTrailingWhitespaceSwapped(l, line) ==
    IF ~EndsWith(line, " ") THEN <<>>
    ELSE IF Len(Strip(line)) = 0
    THEN <<LineIssue(2, l, "whitespace on blank line", TRUE)>>
    ELSE <<Issue(2, Len(RStrip(line, Whitespace)), l, "trailing whitespace",
                 TRUE, 0)>>

\* Rule_Line_Trailing_Whitesapce.apply
RuleLineTrailingWhitespace(l, line) ==
    IF ~EndsWith(line, " ") THEN <<>>
    ELSE IF Len(Strip(line)) = 0
    THEN <<LineIssue(2, l, "whitespace on blank line", TRUE)>>
    ELSE <<Issue(2, l, Len(RStrip(line, Whitespace)), "trailing whitespace",
                 TRUE, 0)>>

\* build_library: a rule is in the library when it is mandatory or active;
\* the rules on the file, in the order of their classes
OnFile(full_text, lines) ==
    (IF Active("file_length") THEN RuleFileLength(full_text, lines) ELSE <<>>)
        \o RuleFileEOFLines(full_text, lines)

\* The rules on line l, in the order of their classes
OnLine(l, line, blank) ==
    [msgs |-> (IF Active("line_length") THEN RuleLineLength(l, line) ELSE <<>>)
                \o RuleLineBlankLines(l, line, blank).msgs
                \o RuleLineTabs(l, line)
                \o RuleLineTrailingWhitespace(l, line),
     is_blank |-> RuleLineBlankLines(l, line, blank).is_blank]

-----------------------------------------------------------------------------
(* The lexer and the parser, as far as process_wp and the analysis see them *)

\* lexer.correct_tabs(tab_width): every tab becomes the spaces up to the next
\* multiple of tab_width in its line
RECURSIVE ExpandTabs(_, _, _)
ExpandTabs(s, col, width) ==
    IF Len(s) = 0 THEN ""
    ELSE LET c == Char(s, 1)
         IN  IF c = "\t"
             THEN Repeat(" ", width - (col % width))
                    \o ExpandTabs(Tail(s), col + width - (col % width), width)
             ELSE c \o ExpandTabs(Tail(s), IF c = "\n" THEN 0 ELSE col + 1, width)

\* The text from position i up to the end of its line
RestOfLine(s, i) ==
    LET rest == Suffix(s, i)
    IN  IF Contains(rest, "\n") THEN SubSeq(rest, 1, Index(rest, "\n")) ELSE rest

\* The longest run of characters of the set chars that starts s
RECURSIVE Run(_, _)
Run(s, chars) ==
    IF Len(s) > 0 /\ Char(s, 1) \in chars
    THEN Char(s, 1) \o Run(Tail(s), chars)
    ELSE ""

\* The raw text of the token that starts at position i of s
Lexeme(s, i) ==
    LET c == Char(s, i)
    IN  IF c = "%" \/ StartsWith(Suffix(s, i), "...") THEN RestOfLine(s, i)
        ELSE IF c \in Letters THEN Run(Suffix(s, i), Letters)
        ELSE IF c \in Digits THEN Run(Suffix(s, i), Digits)
        ELSE c

LexerKeywords == {"if", "end", "function"}

\* The kind of the token with the given raw text; ERROR when there is none
KindOf(raw) ==
    LET c == Char(raw, 1)
    IN  CASE c = "\n" -> "NEWLINE"
          [] c = "%" -> "COMMENT"
          [] StartsWith(raw, "...") -> "CONTINUATION"
          [] c \in Letters ->
                IF raw \in LexerKeywords THEN "KEYWORD" ELSE "IDENTIFIER"
          [] c \in Digits -> "NUMBER"
          [] c = "=" -> "ASSIGNMENT"
          [] c = "," -> "COMMA"
          [] c = ";" -> "SEMICOLON"
          [] c = "(" -> "BRA"
          [] c = ")" -> "KET"
          [] c = "[" -> "M_BRA"
          [] c = "]" -> "M_KET"
          [] c \in {"+", "-"} -> "OPERATOR"
          [] OTHER -> "ERROR"

\* The value of the token: the body of a comment, the text after the dots of
\* a continuation, the raw text of anything else
ValueOf(raw) ==
    CASE Char(raw, 1) = "%" -> Strip(LStrip(raw, {"%"}))
      [] StartsWith(raw, "...") -> Strip(Suffix(raw, 4))
      [] OTHER -> raw

\* The tokens of s from position i, gap characters of whitespace after the
\* token before; a comment and a continuation take the end of their line
RECURSIVE Scan(_, _, _)
Scan(s, i, gap) ==
    IF i > Len(s) THEN <<>>
    ELSE IF Char(s, i) \in {" ", "\t"} THEN Scan(s, i + 1, gap + 1)
    ELSE LET raw == Lexeme(s, i)
             d   == [Desc(KindOf(raw), ValueOf(raw), raw) EXCEPT !.place = gap]
             end == i + Len(raw)
         IN  <<d>> \o Scan(s, IF d.kind \in {"COMMENT", "CONTINUATION"}
                               THEN end + 1 ELSE end, 0)

\* Token_Buffer(lexer, cfg) raises a lexical error on a character that
\* starts no token
Lexable(s) == \A i \in 1..Len(Scan(s, 1, 0)) : Scan(s, 1, 0)[i].kind # "ERROR"

\* The number of brackets of the kinds open still open before token i
RECURSIVE Depth(_, _, _, _)
Depth(descs, i, open, close) ==
    IF i <= 1 THEN 0
    ELSE Depth(descs, i - 1, open, close)
           + (IF descs[i - 1].kind \in open THEN 1
              ELSE IF descs[i - 1].kind \in close THEN -1 ELSE 0)

\* What the lexer and the parser classify of token i: the start of a
\* statement, the terminator of one, the kind of operator, and the tokens of
\* a matrix, after which a continuation is flagged
Classify(descs, i) ==
    LET d      == descs[i]
        depth  == Depth(descs, i, OpenBrackets, CloseBrackets)
        matrix == Depth(descs, i, {"M_BRA"}, {"M_KET"})
        operand == /\ i > 1
                   /\ descs[i - 1].kind \in {"IDENTIFIER", "NUMBER", "KET", "M_KET"}
    IN  [d EXCEPT
           !.first_in_statement =
                /\ d.kind \notin {"NEWLINE", "CONTINUATION"}
                /\ depth = 0
                /\ (i = 1 \/ descs[i - 1].kind \in {"NEWLINE", "COMMENT", "SEMICOLON"}),
           !.fix.statement_terminator = (d.kind = "SEMICOLON" /\ depth = 0),
           !.fix.flag_continuations =
                (matrix > 0 /\ d.kind \notin {"NEWLINE", "CONTINUATION", "COMMENT"}),
           !.fix.unary_operator = (d.kind = "OPERATOR" /\ ~operand),
           !.fix.binary_operator = (d.kind = "OPERATOR" /\ operand)]

\* The token buffer of the text s
Tokenize(s) ==
    LET descs == Scan(s, 1, 0)
    IN  Layout([i \in 1..Len(descs) |-> Classify(descs, i)])

\* parser.parse_file() raises an error when a bracket is closed that was not
\* opened, or is left open
Parses(toks) ==
    /\ \A i \in 1..(Len(toks) + 1) :
          /\ Depth(toks, i, {"BRA"}, {"KET"}) >= 0
          /\ Depth(toks, i, {"M_BRA"}, {"M_KET"}) >= 0
    /\ Depth(toks, Len(toks) + 1, {"BRA"}, {"KET"}) = 0
    /\ Depth(toks, Len(toks) + 1, {"M_BRA"}, {"M_KET"}) = 0

\* The parser links the first token of each statement to the node of the
\* statement, which is at the top level of the file
Link(toks) ==
    [i \in 1..Len(toks) |->
        IF toks[i].first_in_statement /\ toks[i].kind # "COMMENT"
        THEN [toks[i] EXCEPT !.ast_link = {Node(FALSE, 0)}]
        ELSE toks[i]]

\* The token at which parser.parse_file() raises: the bracket that closes what
\* was not opened, or the last token when a bracket is left open
ParseErrorAt(toks) ==
    LET below == {i \in 1..(Len(toks) + 1) :
                     \/ Depth(toks, i, {"BRA"}, {"KET"}) < 0
                     \/ Depth(toks, i, {"M_BRA"}, {"M_KET"}) < 0}
    IN  IF below = {} THEN Len(toks)
        ELSE (CHOOSE i \in below : \A j \in below : i <= j) - 1

\* The first token of the statement the parser is in at token k
StatementOf(toks, k) ==
    LET starts == {i \in 1..k : toks[i].first_in_statement
                                  /\ toks[i].kind # "COMMENT"}
    IN  IF starts = {} THEN 1
        ELSE CHOOSE i \in starts : \A j \in starts : j <= i

\* The links the parser has made when it raises at token k: those of the
\* statements it has parsed, which are the ones before the statement of k
LinkBefore(toks, k) ==
    [i \in 1..Len(toks) |->
        IF i < StatementOf(toks, k) THEN Link(toks)[i] ELSE toks[i]]

\* mh.error(location, message) of the parser, at the token it raises at
ParserError(toks) ==
    [op |-> "error", stage |-> 0, line |-> toks[ParseErrorAt(toks)].line,
     col |-> toks[ParseErrorAt(toks)].col_start, message |-> "parse error",
     fixed |-> FALSE, tok |-> ParseErrorAt(toks)]

\* mh.lex_error(location, message) of the lexer, at the first character of
\* the text s that starts no token
LexerError(s) ==
    LET toks == Tokenize(s)
        k    == CHOOSE i \in 1..Len(toks) :
                   /\ toks[i].kind = "ERROR"
                   /\ \A j \in 1..(i - 1) : toks[j].kind # "ERROR"
    IN  [op |-> "error", stage |-> 0, line |-> toks[k].line,
         col |-> toks[k].col_start, message |-> "unexpected character",
         fixed |-> FALSE, tok |-> 0]

\* tbuf.replay(): the text of the token buffer with the fixes applied.  The
\* whitespace before token i, at the start of a line of the output or after
\* the token before it
LeadOf(toks, i, at_start) ==
    LET t == toks[i]
    IN  IF t.kind = "NEWLINE" \/ t.fix.replace_with_newline THEN 0
        ELSE IF at_start
        THEN IF t.fix.correct_indent # {}
             THEN CHOOSE c \in t.fix.correct_indent : TRUE
             ELSE IF t.first_in_line THEN t.col_start ELSE 0
        ELSE IF t.fix.ensure_trim_before \/ toks[i - 1].fix.ensure_trim_after
        THEN 0
        ELSE IF t.fix.ensure_ws_before \/ toks[i - 1].fix.ensure_ws_after
        THEN 1
        ELSE IF HasPrevInLine(toks, i) THEN WsBefore(toks, i) ELSE 0

\* What token i is written as
BodyOf(t) ==
    IF t.kind = "NEWLINE" \/ t.fix.replace_with_newline THEN "\n"
    ELSE RStrip(t.raw_text, Whitespace)
           \o (IF t.kind \in {"COMMENT", "CONTINUATION"} THEN "\n" ELSE "")
           \o (IF t.fix.add_newline THEN "\n" ELSE "")

RECURSIVE Emit(_, _, _)
Emit(toks, i, out) ==
    IF i > Len(toks) THEN out
    ELSE LET t        == toks[i]
             at_start == out = "" \/ EndsWith(out, "\n")
             surplus  == BodyOf(t) = "\n" /\ EndsWith(out, "\n\n")
         IN  IF t.fix.delete \/ surplus THEN Emit(toks, i + 1, out)
             ELSE Emit(toks, i + 1,
                       out \o Repeat(" ", LeadOf(toks, i, at_start)) \o BodyOf(t))

\* A text that is not empty ends with exactly one newline
Replay(toks) ==
    LET out == RStrip(Emit(toks, 1, ""), {"\n"})
    IN  IF out = "" THEN "" ELSE out \o "\n"

-----------------------------------------------------------------------------
(* MH_Style.process_wp *)

FixAlways == TRUE

\* if autofix:
FixRequested == autofix

\* The locals of stage_3_analysis as it is called on the buffer toks
EnterAnalysis(toks) ==
    /\ tokens' = toks
    /\ n' = 1
    /\ in_copyright_notice' = CopyrightActive
    /\ company_copyright_found' = FALSE
    /\ generic_copyright_found' = FALSE
    /\ copyright_token' = 0
    /\ copyright_notice' = <<>>
    /\ statement_start_token' = 0
    /\ current_indent' = 0
    /\ enclosing_ast' = {}

\* "We're dealing with an empty file here. Lets just not do anything"
CheckEmpty ==
    /\ pc = "start"
    /\ Len(Strip(text)) = 0
    /\ pc' = "done"
    /\ UNCHANGED <<autofix, cfg, is_embedded, text, line_no, is_blank,
                   parse_tree, comment_char, tokens, n, in_copyright_notice,
                   company_copyright_found, generic_copyright_found,
                   copyright_token, copyright_notice, statement_start_token,
                   current_indent, enclosing_ast, mh, tabs_corrected, written,
                   pass>>

\* Stage 1 - rules around the file itself
Stage1 ==
    /\ pc = "start"
    /\ Len(Strip(text)) # 0
    /\ mh' = mh \o OnFile(text, SplitLines(text))
    /\ pc' = "stage2"
    /\ line_no' = 1
    /\ is_blank' = FALSE
    /\ UNCHANGED <<autofix, cfg, is_embedded, text, parse_tree, comment_char,
                   tokens, n, in_copyright_notice, company_copyright_found,
                   generic_copyright_found, copyright_token, copyright_notice,
                   statement_start_token, current_indent, enclosing_ast,
                   tabs_corrected, written, pass>>

\* Stage 2 - rules around raw text lines: the rules on the next line
Stage2Line ==
    /\ pc = "stage2"
    /\ line_no <= Len(SplitLines(text))
    /\ LET r == OnLine(line_no, SplitLines(text)[line_no], is_blank)
       IN  /\ mh' = mh \o r.msgs
           /\ is_blank' = r.is_blank
    /\ line_no' = line_no + 1
    /\ UNCHANGED <<pc, autofix, cfg, is_embedded, text, parse_tree,
                   comment_char, tokens, n, in_copyright_notice,
                   company_copyright_found, generic_copyright_found,
                   copyright_token, copyright_notice, statement_start_token,
                   current_indent, enclosing_ast, tabs_corrected, written,
                   pass>>

CorrectTabsEarly ==
    /\ pc = "stage2"
    /\ IF FixRequested
       THEN /\ text' = ExpandTabs(text, 0, cfg.tab_width)
            /\ tabs_corrected' = TRUE
       ELSE UNCHANGED <<text, tabs_corrected>>
    /\ pc' = "lex"
    /\ UNCHANGED <<autofix, cfg, is_embedded, line_no, is_blank, parse_tree,
                   comment_char, tokens, n, in_copyright_notice,
                   company_copyright_found, generic_copyright_found,
                   copyright_token, copyright_notice, statement_start_token,
                   current_indent, enclosing_ast, mh, written, pass>>

\* After the last line: if autofix: lexer.correct_tabs(wp.cfg["tab_width"])
CorrectTabs ==
    /\ pc = "stage2"
    /\ line_no > Len(SplitLines(text))
    /\ IF FixRequested
       THEN /\ text' = ExpandTabs(text, 0, cfg.tab_width)
            /\ tabs_corrected' = TRUE
       ELSE UNCHANGED <<text, tabs_corrected>>
    /\ pc' = "lex"
    /\ UNCHANGED <<autofix, cfg, is_embedded, line_no, is_blank, parse_tree,
                   comment_char, tokens, n, in_copyright_notice,
                   company_copyright_found, generic_copyright_found,
                   copyright_token, copyright_notice, statement_start_token,
                   current_indent, enclosing_ast, mh, written, pass>>

\* tbuf = Token_Buffer(lexer, wp.cfg)
CreateTokenBuffer ==
    /\ pc = "lex"
    /\ Lexable(text)
    /\ tokens' = Tokenize(text)
    /\ pc' = "parse"
    /\ UNCHANGED <<autofix, cfg, is_embedded, text, line_no, is_blank,
                   parse_tree, comment_char, n, in_copyright_notice,
                   company_copyright_found, generic_copyright_found,
                   copyright_token, copyright_notice, statement_start_token,
                   current_indent, enclosing_ast, mh, tabs_corrected, written,
                   pass>>

LexErrorIgnored ==
    /\ pc = "lex"
    /\ ~Lexable(text)
    /\ tokens' = Tokenize(text)
    /\ pc' = "parse"
    /\ UNCHANGED <<autofix, cfg, is_embedded, text, line_no, is_blank,
                   parse_tree, comment_char, n, in_copyright_notice,
                   company_copyright_found, generic_copyright_found,
                   copyright_token, copyright_notice, statement_start_token,
                   current_indent, enclosing_ast, mh, tabs_corrected, written,
                   pass>>

\* "If there are lex errors, we can stop here": the lexer, which was given
\* wp.mh, has registered its error and raised Error
LexError ==
    /\ pc = "lex"
    /\ ~Lexable(text)
    /\ mh' = Append(mh, LexerError(text))
    /\ pc' = "done"
    /\ UNCHANGED <<autofix, cfg, is_embedded, text, line_no, is_blank,
                   parse_tree, comment_char, tokens, n, in_copyright_notice,
                   company_copyright_found, generic_copyright_found,
                   copyright_token, copyright_notice, statement_start_token,
                   current_indent, enclosing_ast, tabs_corrected, written,
                   pass>>

\* parse_tree = parser.parse_file(): the parser has linked the tokens
ParseFile ==
    /\ pc = "parse"
    /\ Parses(tokens)
    /\ parse_tree' = {"Compilation_Unit"}
    /\ tokens' = Link(tokens)
    /\ pc' = "naming"
    /\ UNCHANGED <<autofix, cfg, is_embedded, text, line_no, is_blank,
                   comment_char, n, in_copyright_notice,
                   company_copyright_found, generic_copyright_found,
                   copyright_token, copyright_notice, statement_start_token,
                   current_indent, enclosing_ast, mh, tabs_corrected, written,
                   pass>>

\* The parser, which was given wp.mh, has registered its error and raised
\* Error; except Error: parse_tree = None, and the call of stage_3_analysis
ParseError ==
    /\ pc = "parse"
    /\ ~Parses(tokens)
    /\ parse_tree' = {}
    /\ mh' = Append(mh, ParserError(tokens))
    /\ EnterAnalysis(LinkBefore(tokens, ParseErrorAt(tokens)))
    /\ pc' = "stage3"
    /\ UNCHANGED <<autofix, cfg, is_embedded, text, line_no, is_blank,
                   comment_char, tabs_corrected, written, pass>>

\* What the naming check registers about a name of the parse tree; it is of
\* no stage (stage 0)
NamingIssue ==
    [op |-> "style_issue", stage |-> 0, line |-> 1, col |-> 0,
     message |-> "violates naming scheme", fixed |-> FALSE, tok |-> 0]

\* The error the naming check registers when it raises Error
NamingError ==
    [op |-> "error", stage |-> 0, line |-> 1, col |-> 0,
     message |-> "naming check failed", fixed |-> FALSE, tok |-> 0]

\* parse_tree.sty_check_naming(wp.mh, wp.cfg), a collaborator that is handed
\* the message handler: it returns and has registered nothing, or returns and
\* has registered a style issue, or registers an error and raises Error
sty_check_naming ==
    {[msgs |-> <<>>, raised |-> FALSE],
     [msgs |-> <<NamingIssue>>, raised |-> FALSE],
     [msgs |-> <<NamingError>>, raised |-> TRUE]}

\* "Check naming (we do this after parsing, not during ...)": the call of the
\* naming check, except Error: parse_tree = None on the linked tokens, and
\* the call of stage_3_analysis.  The options debug_validate_links, fd_tree
\* and debug_cfg are off
CheckNaming ==
    /\ pc = "naming"
    /\ \E o \in sty_check_naming :
          /\ mh' = mh \o o.msgs
          /\ parse_tree' = IF o.raised THEN {} ELSE parse_tree
    /\ EnterAnalysis(tokens)
    /\ pc' = "stage3"
    /\ UNCHANGED <<autofix, cfg, is_embedded, text, line_no, is_blank,
                   comment_char, tabs_corrected, written, pass>>

\* wp.mh.error(lexer.get_file_loc(), ..., fatal=False)
NotFixedError ==
    [op |-> "error", stage |-> 4, line |-> 0, col |-> -1,
     message |-> "file is not auto-fixed because it contains parse errors",
     fixed |-> FALSE, tok |-> 0]

ParseTreeNeverMissing == FALSE

\* if not parse_tree:
ParseTreeMissing == parse_tree = {}

\* "Possibly re-write the file, with issues fixed"
WriteModified ==
    /\ pc = "analysed"
    /\ IF ~FixRequested THEN UNCHANGED <<mh, written>>
       ELSE IF ParseTreeMissing
       THEN mh' = Append(mh, NotFixedError) /\ UNCHANGED written
       ELSE written' = {Replay(tokens)} /\ UNCHANGED mh
    /\ pc' = "done"
    /\ UNCHANGED <<autofix, cfg, is_embedded, text, line_no, is_blank,
                   parse_tree, comment_char, tokens, n, in_copyright_notice,
                   company_copyright_found, generic_copyright_found,
                   copyright_token, copyright_notice, statement_start_token,
                   current_indent, enclosing_ast, tabs_corrected, pass>>

\* The tool is run again, on the file it has written
RunAgain ==
    /\ pc = "done"
    /\ pass = 1
    /\ written # {}
    /\ text' = CHOOSE t \in written : TRUE
    /\ pass' = 2
    /\ pc' = "start"
    /\ mh' = <<>>
    /\ written' = {}
    /\ tabs_corrected' = FALSE
    /\ parse_tree' = {}
    /\ line_no' = 0
    /\ is_blank' = FALSE
    /\ tokens' = <<>>
    /\ UNCHANGED <<autofix, cfg, is_embedded, comment_char, n,
                   in_copyright_notice, company_copyright_found,
                   generic_copyright_found, copyright_token, copyright_notice,
                   statement_start_token, current_indent, enclosing_ast>>

-----------------------------------------------------------------------------
(* Files *)

MaxLines == 2

\* The lines files are made of: blank and with trailing whitespace, with a
\* tab, indented, a statement that starts after another and is continued, a
\* continued matrix, an unknown character, a comment, an assignment
SourceLines ==
    {"", " ", "x", "x ", "\tx", "  x", "x; y = ...", "    1", "[x ...", "x]",
     "$", "% x", "x=1 "}

RECURSIVE Joined(_)
Joined(k) ==
    IF k <= 1 THEN SourceLines
    ELSE LET shorter == Joined(k - 1)
         IN  shorter \cup {a \o "\n" \o b : a \in shorter, b \in SourceLines}

\* Files of up to MaxLines lines, with and without a final newline
SourceTexts == UNION {{t, t \o "\n"} : t \in Joined(MaxLines)}

\* No optional rule, every rule, or the indentation only
Configurations ==
    {[Config(active, <<>>) EXCEPT !.file_length = 1] :
        active \in {{}, AllRules, {"indentation"}}}

Init ==
    /\ pc = "start"
    /\ pass = 1
    /\ autofix \in BOOLEAN
    /\ cfg \in Configurations
    /\ is_embedded = FALSE
    /\ comment_char = {"%"}
    /\ text \in SourceTexts
    /\ line_no = 0
    /\ is_blank = FALSE
    /\ parse_tree = {}
    /\ mh = <<>>
    /\ tabs_corrected = FALSE
    /\ written = {}
    /\ AnalysisStarts(<<>>)

Next ==
    \/ CheckEmpty \/ Stage1 \/ Stage2Line \/ CorrectTabs
    \/ CreateTokenBuffer \/ LexError \/ ParseFile \/ ParseError
    \/ CheckNaming \/ Stage3Step \/ Stage3Return \/ WriteModified \/ RunAgain

\* process_wp on a file, and once more on the file it has written
Spec == Init /\ [][Next]_vars

-----------------------------------------------------------------------------
(* The rules on the lines of files with blank lines *)

MaxFileLines == 4

\* An empty line, a line of whitespace, a line of text, a line with a tab
\* after its text
PlainLines == {"", " ", "x", "x\t"}

RECURSIVE JoinedPlain(_)
JoinedPlain(k) ==
    IF k <= 1 THEN PlainLines
    ELSE LET shorter == JoinedPlain(k - 1)
         IN  shorter \cup {a \o "\n" \o b : a \in shorter, b \in PlainLines}

PlainTexts == UNION {{t, t \o "\n"} : t \in JoinedPlain(MaxFileLines)}

InitLines ==
    /\ pc = "start"
    /\ pass = 1
    /\ autofix = FALSE
    /\ cfg \in {[Config(active, <<>>) EXCEPT !.file_length = 1] :
                  active \in {{}, AllRules}}
    /\ is_embedded = FALSE
    /\ comment_char = {"%"}
    /\ text \in PlainTexts
    /\ line_no = 0
    /\ is_blank = FALSE
    /\ parse_tree = {}
    /\ mh = <<>>
    /\ tabs_corrected = FALSE
    /\ written = {}
    /\ AnalysisStarts(<<>>)

NextLines == CheckEmpty \/ Stage1 \/ Stage2Line

\* Stage 1 and Stage 2 of process_wp
SpecLines == InitLines /\ [][NextLines]_vars

-----------------------------------------------------------------------------
(* The analysis of a comment, and once more of the comment it has rewritten *)

MaxComment == 5

\* What comments are made of: the characters that start a comment, a space,
\* a carriage return, a letter, and characters that are none of these
CommentAlphabet == {"%", "#", " ", "\r", "a", "1", "{", "|"}

\* The raw texts of up to k characters
RECURSIVE CommentTexts(_)
CommentTexts(k) ==
    IF k <= 1 THEN {"%", "#"}
    ELSE LET shorter == CommentTexts(k - 1)
         IN  shorter \cup {t \o c : t \in shorter, c \in CommentAlphabet}

\* A comment alone on its line, in a block comment or not
CommentTokens ==
    {Layout(<<[Desc("COMMENT", Suffix(raw, 2), raw)
                  EXCEPT !.block_comment = b]>>) :
        raw \in CommentTexts(MaxComment), b \in BOOLEAN}

InitComments ==
    /\ pc = "stage3"
    /\ pass = 1
    /\ NoFile
    /\ is_embedded = FALSE
    /\ comment_char \in {{"%"}, {"%", "#"}}
    /\ cfg = Config({"whitespace_comments"}, <<>>)
    /\ mh = <<>>
    /\ \E toks \in CommentTokens : AnalysisStarts(toks)

\* stage_3_analysis is called again, on the tokens as the analysis left them
AnalyseAgain ==
    /\ pc = "analysed"
    /\ pass = 1
    /\ pass' = 2
    /\ EnterAnalysis(tokens)
    /\ pc' = "stage3"
    /\ UNCHANGED <<autofix, cfg, is_embedded, text, line_no, is_blank,
                   parse_tree, comment_char, mh, tabs_corrected, written>>

NextComments == Stage3Step \/ Stage3Return \/ AnalyseAgain

\* stage_3_analysis on a comment, twice
SpecComments == InitComments /\ [][NextComments]_vars

-----------------------------------------------------------------------------
(* Properties of the analysis *)

Issues(log) == {i \in 1..Len(log) : log[i].op = "style_issue"}

\* The messages the step from the current state appends
NewMessages == {i \in 1..Len(mh') : i > Len(mh)}

\* C3: the loop iteration for an anonymous token emits no diagnostic and
\* changes no fix record and no raw text, whatever its kind and the
\* configuration: it only tracks the statement start and registers a
\* justification.
C3_AnonymousIsSilent ==
    [][(pc = "stage3" /\ n <= Len(tokens) /\ tokens[n].anonymous) =>
          /\ tokens' = tokens
          /\ \A i \in NewMessages : mh'[i].op = "register_justification"
          /\ SubSeq(mh', 1, Len(mh)) = mh
          /\ current_indent' = current_indent
          /\ copyright_notice' = copyright_notice
          /\ in_copyright_notice' = in_copyright_notice]_vars

\* An anonymous "=" that touches both neighbours has been analysed with every
\* rule enabled
C3_Witness ==
    /\ pc = "stage3" /\ n = 3
    /\ cfg.active = AllRules
    /\ tokens[2].anonymous /\ tokens[2].kind = "ASSIGNMENT"
    /\ HasPrevInLine(tokens, 2) /\ WsBefore(tokens, 2) = 0
    /\ HasNextInLine(tokens, 2) /\ WsAfter(tokens, 2) = 0

\* C4: no fix record has ensure_ws_before with ensure_trim_before, or
\* ensure_ws_after with ensure_trim_after.
C4_WsAndTrimExclusive ==
    \A i \in 1..Len(tokens) :
        /\ ~(tokens[i].fix.ensure_ws_before /\ tokens[i].fix.ensure_trim_before)
        /\ ~(tokens[i].fix.ensure_ws_after /\ tokens[i].fix.ensure_trim_after)

\* The analysis has finished on a buffer where a comma got trim-before and
\* ws-after and its neighbour a directive too
C4_Witness ==
    /\ pc = "analysed"
    /\ tokens[1].kind = "COMMA" /\ tokens[1].fix.ensure_trim_before
    /\ tokens[1].fix.ensure_ws_after
    /\ tokens[2].kind = "OPERATOR" /\ tokens[2].fix.ensure_trim_after

\* A directive of the fix record is set
HasDirective(fix) ==
    \/ fix.ensure_ws_before \/ fix.ensure_ws_after
    \/ fix.ensure_trim_before \/ fix.ensure_trim_after
    \/ fix.add_newline \/ fix.replace_with_newline \/ fix.delete
    \/ fix.correct_indent # {}

\* C5 as stated: the token of every Stage 3 diagnostic with fixed = true has
\* a fix directive set.
C5_FixedHasDirective ==
    \A i \in Issues(mh) :
        (mh[i].stage = 3 /\ mh[i].fixed) => HasDirective(tokens[mh[i].tok].fix)

\* C5, amended: the step that emits a Stage 3 diagnostic with fixed = true
\* leaves its token with a fix directive set or with its raw text rewritten.
C5_FixedHasDirectiveOrRewrite ==
    [][\A i \in NewMessages :
          (mh'[i].op = "style_issue" /\ mh'[i].stage = 3 /\ mh'[i].fixed) =>
             \/ HasDirective(tokens'[mh'[i].tok].fix)
             \/ tokens'[mh'[i].tok].raw_text # tokens[mh'[i].tok].raw_text]_vars

\* A pragma comment with a gap has been reported as fixed and rewritten, and
\* has no directive
C5_Witness ==
    \E i \in Issues(mh) :
        /\ mh[i].fixed /\ mh[i].tok = 2
        /\ tokens[2].kind = "COMMENT" /\ tokens[2].raw_text = "%#ok"
        /\ ~HasDirective(tokens[2].fix)

\* The messages reported at token k
MessagesAt(k) == {mh[i].message : i \in {j \in Issues(mh) : mh[j].tok = k}}

\* C8: with whitespace_assignment enabled, an "=" that touches its neighbours
\* on both sides of the same line gets the two diagnostics "= must be
\* preceeded by whitespace" and "= must be succeeded by whitespace", and
\* ensure_ws_before and ensure_ws_after.
C8_AssignmentTwoDiagnostics ==
    \A k \in 1..Len(tokens) :
        (/\ n > k
         /\ Active("whitespace_assignment")
         /\ tokens[k].kind = "ASSIGNMENT" /\ ~tokens[k].anonymous
         /\ HasPrevInLine(tokens, k) /\ WsBefore(tokens, k) = 0
         /\ HasNextInLine(tokens, k) /\ WsAfter(tokens, k) = 0)
        => /\ "= must be preceeded by whitespace" \in MessagesAt(k)
           /\ "= must be succeeded by whitespace" \in MessagesAt(k)
           /\ tokens[k].fix.ensure_ws_before
           /\ tokens[k].fix.ensure_ws_after

\* The gaps between the tokens of the buffer (all on one line)
GapsOf(toks) == [i \in 1..(Len(toks) - 1) |-> WsBefore(toks, i + 1)]

KindsOf(toks) == [i \in 1..Len(toks) |-> toks[i].kind]

\* The analysis has finished on f( 1 , 2 ) with whitespace_comma and
\* whitespace_brackets and no other rule
CallAnalysed ==
    /\ pc = "analysed"
    /\ cfg.active = {"whitespace_comma", "whitespace_brackets"}
    /\ KindsOf(tokens) = KindsOf(Layout(CallLine))
    /\ GapsOf(tokens) = <<0, 1, 1, 1, 1>>

\* The directives the analysis sets
Directives(fix) ==
    {d \in {"ensure_ws_before", "ensure_ws_after", "ensure_trim_before",
            "ensure_trim_after", "add_newline", "replace_with_newline",
            "delete", "correct_indent"} :
        CASE d = "ensure_ws_before" -> fix.ensure_ws_before
          [] d = "ensure_ws_after" -> fix.ensure_ws_after
          [] d = "ensure_trim_before" -> fix.ensure_trim_before
          [] d = "ensure_trim_after" -> fix.ensure_trim_after
          [] d = "add_newline" -> fix.add_newline
          [] d = "replace_with_newline" -> fix.replace_with_newline
          [] d = "delete" -> fix.delete
          [] d = "correct_indent" -> fix.correct_indent # {}}

CallDirectives ==
    /\ Directives(tokens[1].fix) = {}
    /\ Directives(tokens[2].fix) = {"ensure_trim_after"}
    /\ Directives(tokens[3].fix) = {}
    /\ Directives(tokens[4].fix) = {"ensure_trim_before", "ensure_ws_after"}
    /\ Directives(tokens[5].fix) = {}
    /\ Directives(tokens[6].fix) = {"ensure_trim_before"}

\* C9 as stated: f( 1 , 2 ) with whitespace_comma and whitespace_brackets
\* gets exactly four diagnostics, trim-after on the opener, trim-before and
\* ws-after on the comma and trim-before on the closer.
C9_CallFourDiagnostics ==
    CallAnalysed => (Cardinality(Issues(mh)) = 4 /\ CallDirectives)

\* C9, amended: it gets exactly three diagnostics, one on the opener, one on
\* the comma and one on the closer, and those directives.
C9_CallThreeDiagnostics ==
    CallAnalysed =>
        /\ Cardinality(Issues(mh)) = 3
        /\ [i \in 1..Len(mh) |-> mh[i].tok] = <<2, 4, 6>>
        /\ CallDirectives

C9_Witness == CallAnalysed /\ Len(mh) = 3

-----------------------------------------------------------------------------
(* Properties of the copyright check *)

\* The token that ends the header: the first that is neither anonymous nor a
\* comment (0 when there is none)
HeaderEnd ==
    LET ends == {i \in 1..Len(tokens) :
                    ~tokens[i].anonymous /\ tokens[i].kind # "COMMENT"}
    IN  IF ends = {} THEN 0 ELSE CHOOSE i \in ends : \A j \in ends : i <= j

\* The values of the comments of the header
HeaderComments ==
    {tokens[i].value : i \in {j \in 1..Len(tokens) :
        /\ ~tokens[j].anonymous /\ tokens[j].kind = "COMMENT"
        /\ (HeaderEnd = 0 \/ j < HeaderEnd)}}

Conforming(v) == CopyrightSearch(v) # {}

NamesEntity(v) ==
    \E org \in CopyrightSearch(v) : Strip(org) \in SeqElems(cfg.copyright_entity)

\* The outcome by the priority of the claim
ExpectedCopyright ==
    IF HeaderComments = {}
    THEN <<"file does not appear to contain any copyright header">>
    ELSE IF \E v \in HeaderComments : NamesEntity(v) THEN <<>>
    ELSE IF \E v \in HeaderComments : Conforming(v) THEN
        IF cfg.copyright_entity # <<>>
        THEN <<"Copyright does not mention one of " \o JoinOr(cfg.copyright_entity)>>
        ELSE <<>>
    ELSE IF \E v \in HeaderComments : LooseCopyright(v)
    THEN <<"Copyright notice not in right format">>
    ELSE <<"No copyright notice found in header">>

CopyrightMessages ==
    {"file does not appear to contain any copyright header",
     "Copyright notice not in right format",
     "No copyright notice found in header"}
    \cup {"Copyright does not mention one of " \o JoinOr(e) : e \in Entities}

\* The copyright messages emitted so far, in order
RECURSIVE Emitted(_)
Emitted(log) ==
    IF log = <<>> THEN <<>>
    ELSE IF log[1].op = "style_issue" /\ log[1].message \in CopyrightMessages
    THEN <<log[1].message>> \o Emitted(Tail(log))
    ELSE Emitted(Tail(log))

AcmeHeader ==
    /\ HeaderEnd # 0
    /\ HeaderComments = {"Copyright 2020 Acme Ltd"}

\* C10: with copyright_notice active, nothing about copyright is emitted
\* before the first token that is neither anonymous nor a comment; from that
\* token on exactly the outcome of the priority list has been emitted, and
\* nothing is added at a later token.  The header % Copyright 2020 Acme Ltd
\* is silent for the entity Acme Ltd and gets "Copyright does not mention one
\* of Globex" for the entity Globex.
C10_CopyrightOutcome ==
    CopyrightActive =>
        /\ (HeaderEnd = 0 \/ n <= HeaderEnd) => Emitted(mh) = <<>>
        /\ (HeaderEnd # 0 /\ n > HeaderEnd) => Emitted(mh) = ExpectedCopyright
        /\ (AcmeHeader /\ n > HeaderEnd /\ cfg.copyright_entity = <<"Acme Ltd">>)
              => Emitted(mh) = <<>>
        /\ (AcmeHeader /\ n > HeaderEnd /\ cfg.copyright_entity = <<"Globex">>)
              => Emitted(mh) = <<"Copyright does not mention one of Globex">>

\* The analysis has finished on a file whose header conforms and names no
\* configured entity, and which has a comment with a notice after the header
C10_Witness ==
    /\ pc = "analysed" /\ CopyrightActive
    /\ AcmeHeader /\ cfg.copyright_entity = <<"Globex">>
    /\ Emitted(mh) = <<"Copyright does not mention one of Globex">>
    /\ \E i \in 1..Len(tokens) :
          i > HeaderEnd /\ tokens[i].value = "Copyright 2020 Globex"

-----------------------------------------------------------------------------
(* Properties of process_wp *)

\* Diagnostic a is not after diagnostic b in the order of (line, column); a
\* location without a column is at any column of its line
NotAfter(a, b) ==
    \/ a.line < b.line
    \/ a.line = b.line /\ (a.col = -1 \/ b.col = -1 \/ a.col <= b.col)

\* C1 as claimed: the diagnostics handed to the sink are in non-decreasing
\* (line, column) order of their locations.
C1_DiagnosticsInSourceOrder ==
    \A i, j \in Issues(mh) : i < j => NotAfter(mh[i], mh[j])

\* The place of a diagnostic in the order of the steps of process_wp: Stage 1,
\* Stage 2, the naming check, Stage 3
StepOf(d) == CASE d.stage = 1 -> 1 [] d.stage = 2 -> 2 [] d.stage = 0 -> 3
               [] OTHER -> 4

\* C1, amended: the diagnostics handed to the sink are in the order of the
\* steps (Stage 1, then Stage 2, then what the naming check of the parse
\* tree registers, then Stage 3), and the diagnostics of Stage 2 are in
\* non-decreasing order of their lines.
C1_DiagnosticsInStageOrder ==
    \A i, j \in Issues(mh) :
        i < j => /\ StepOf(mh[i]) <= StepOf(mh[j])
                 /\ (mh[i].stage = 2 /\ mh[j].stage = 2)
                        => mh[i].line <= mh[j].line

\* A file has been processed whose file rule reported at its last line before
\* the line rules reported at an earlier line and then at a later one, and
\* the naming check and then the analysis have reported as well
C1_Witness ==
    /\ pc = "done"
    /\ \E i, j, k, l \in Issues(mh) :
          /\ i < j /\ j < k /\ k < l - 1
          /\ mh[i].stage = 1 /\ mh[j].stage = 2 /\ mh[k].stage = 2
          /\ mh[l - 1] = NamingIssue /\ mh[l].stage = 3
          /\ mh[j].line < mh[i].line /\ mh[j].line < mh[k].line

\* C2 as claimed: when the tool has run again on the text it wrote (the parse
\* having succeeded), it writes the same text again, and every first-in-line
\* token is at the indentation the analysis computed for it.
C2_AutofixIdempotent ==
    (pass = 2 /\ pc = "done" /\ parse_tree # {}) =>
        /\ written = {text}
        /\ \A i \in 1..Len(tokens) :
              tokens[i].first_in_line =>
                 \A c \in tokens[i].fix.correct_indent : tokens[i].col_start = c

\* Stage 1 and Stage 2 are over and have reported nothing
MandatoryRulesSatisfied ==
    /\ pc \notin {"start", "stage2"}
    /\ \A i \in Issues(mh) : mh[i].stage \notin {1, 2}

\* The positions of the style issues the three stages have emitted
StageIssues == {i \in Issues(mh) : mh[i].stage \in {1, 2, 3}}

\* A directive of the fix record of token i is set
DirectiveSet(i) ==
    \/ tokens[i].fix.ensure_ws_before \/ tokens[i].fix.ensure_ws_after
    \/ tokens[i].fix.ensure_trim_before \/ tokens[i].fix.ensure_trim_after
    \/ tokens[i].fix.add_newline \/ tokens[i].fix.replace_with_newline
    \/ tokens[i].fix.delete \/ tokens[i].fix.correct_indent # {}

\* C6 as claimed: with every optional rule disabled and a text that satisfies
\* the mandatory rules, no diagnostic is emitted and no fix directive is set,
\* whatever the tokens are.
C6_NoRuleNoDiagnostic ==
    (cfg.active = {} /\ MandatoryRulesSatisfied) =>
        /\ Issues(mh) = {}
        /\ \A i \in 1..Len(tokens) : ~DirectiveSet(i)

\* The diagnostic of a continuation that follows, in its line, a token that
\* flags continuations, reported as not fixed
IsDangerousContinuation(d) ==
    /\ d.op = "style_issue" /\ d.stage = 3 /\ ~d.fixed
    /\ d.message = "this continuation is dangerously misleading"
    /\ d.tok \in 2..Len(tokens)
    /\ tokens[d.tok].kind = "CONTINUATION"
    /\ tokens[d.tok - 1].line = tokens[d.tok].line
    /\ tokens[d.tok - 1].fix.flag_continuations

\* C6, amended: with every optional rule disabled and a text that satisfies
\* the mandatory rules, the three stages set no fix directive, and the only
\* style issue they emit is "this continuation is dangerously misleading",
\* not fixed, for a continuation that follows in its line a token carrying
\* flag_continuations.
C6_NoRuleOnlyDangerousContinuation ==
    (cfg.active = {} /\ MandatoryRulesSatisfied) =>
        /\ \A i \in StageIssues : IsDangerousContinuation(mh[i])
        /\ \A i \in 1..Len(tokens) : ~DirectiveSet(i)

\* A file that satisfies the mandatory rules has been processed with every
\* optional rule disabled, and a continuation in it has been reported
C6_Witness ==
    /\ pc = "done" /\ cfg.active = {} /\ MandatoryRulesSatisfied
    /\ parse_tree # {}
    /\ \E i \in 1..Len(mh) : IsDangerousContinuation(mh[i])

\* C7: when the fix option is off no step of process_wp changes the text,
\* expands the tabs or writes the file.
C7_NoFixNoWrite ==
    [][~autofix => (text' = text /\ ~tabs_corrected' /\ written' = {})]_vars

\* A file with a tab that lexes and parses has been processed with the fix
\* option off, and has been reported
C7_Witness ==
    /\ ~autofix /\ pc = "done" /\ parse_tree # {}
    /\ Contains(text, "\t")
    /\ \E i \in Issues(mh) : mh[i].message = "tab is not allowed"

-----------------------------------------------------------------------------
(* Properties of the error paths of process_wp *)

\* The parser or the naming check has raised an Error on the token buffer:
\* the analysis is called without a parse tree
ParseFailed ==
    /\ pc \in {"stage3", "analysed", "done"}
    /\ tokens # <<>>
    /\ parse_tree = {}

\* The positions of the error about parse errors among the messages
NotFixedErrors == {i \in 1..Len(mh) : mh[i] = NotFixedError}

\* C11: when the parser raises an error the analysis still runs over every
\* token; with the fix option set exactly one error "file is not auto-fixed
\* because it contains parse errors" is emitted, after the analysis, and the
\* file is never written; with the fix option off there is neither the error
\* nor a write.
C11_ParseErrorStillAnalysed ==
    ParseFailed =>
        /\ written = {}
        /\ pc # "done" => NotFixedErrors = {}
        /\ pc = "done" =>
              /\ n = Len(tokens) + 1
              /\ NotFixedErrors = (IF autofix THEN {Len(mh)} ELSE {})

\* A file with a bracket that is never opened has been processed with the
\* fix option set: the parser has registered its error, the analysis has
\* reported and the error about parse errors follows
C11_Witness ==
    /\ ParseFailed /\ ~Parses(tokens) /\ pc = "done" /\ autofix
    /\ \E i \in 1..Len(mh) : mh[i].op = "error" /\ mh[i].stage = 0
    /\ \E i \in Issues(mh) : mh[i].stage = 3
    /\ NotFixedErrors = {Len(mh)}

\* Token_Buffer has raised a lexical error and process_wp has returned
LexFailed == pc = "done" /\ Len(Strip(text)) # 0 /\ ~Lexable(text)

\* What Stage 2 reports on the lines from line l on
RECURSIVE Stage2From(_, _, _)
Stage2From(lines, l, blank) ==
    IF l > Len(lines) THEN <<>>
    ELSE OnLine(l, lines[l], blank).msgs
           \o Stage2From(lines, l + 1, OnLine(l, lines[l], blank).is_blank)

\* What Stage 1 and Stage 2 report on the text s
FileAndLineIssues(s) ==
    OnFile(s, SplitLines(s)) \o Stage2From(SplitLines(s), 1, FALSE)

\* The message is a style issue
IsStyleIssue(d) == d.op = "style_issue"

\* C12: when building the token buffer raises a lexical error, process_wp
\* returns after Stage 1 and Stage 2 have reported on the file and on every
\* line: the parser has not run, Stage 3 has reported nothing and the file
\* is not written, also with the fix option set, in which case the tabs of
\* the lexer's text have been expanded.
C12_LexErrorStopsAfterStage2 ==
    LexFailed =>
        /\ line_no = Len(SplitLines(text)) + 1
        /\ \A i \in 1..Len(mh) : mh[i].stage # 3
        /\ \A i \in Issues(mh) : mh[i].stage \in {1, 2}
        /\ (\A i \in 1..Len(mh) : mh[i].message # "tab is not allowed")
              => SelectSeq(mh, IsStyleIssue) = FileAndLineIssues(text)
        /\ tokens = <<>> /\ parse_tree = {}
        /\ written = {}
        /\ tabs_corrected = autofix
        /\ autofix => ~Contains(text, "\t")

\* A file with a tab and an unknown character has been processed with the
\* fix option set: its file and its lines have been reported, the tab is
\* expanded, and the lexer's error is the last message
C12_Witness ==
    /\ LexFailed /\ autofix /\ tabs_corrected
    /\ mh[Len(mh)].op = "error"
    /\ \E i, j \in Issues(mh) :
          /\ mh[i].stage = 1 /\ mh[j].stage = 2
          /\ mh[j].message = "tab is not allowed"
    /\ \E i \in Issues(mh) : mh[i].line = Len(SplitLines(text))

-----------------------------------------------------------------------------
(* Properties of the indentation *)

\* Token i is first in its line, starts a statement and has no link to the
\* AST, and the indentation rule looks at it
UnlinkedStart(i) ==
    /\ Active("indentation")
    /\ ~tokens[i].anonymous /\ tokens[i].kind # "NEWLINE"
    /\ tokens[i].first_in_line /\ ~tokens[i].block_comment
    /\ tokens[i].first_in_statement /\ tokens[i].ast_link = {}

\* The step reports the indentation of the token it analyses
ReportsIndentation ==
    \E i \in NewMessages :
        /\ mh'[i].op = "style_issue" /\ mh'[i].tok = n
        /\ StartsWith(mh'[i].message, "indentation not correct")

\* C13 as claimed: with indentation enabled, a first-in-line statement-start
\* token without an AST link, with no enclosing AST tracked, is skipped: no
\* indentation diagnostic is emitted for it and its correct_indent is left
\* unset.
C13_UnlinkedStartSkipped ==
    [][(pc = "stage3" /\ n <= Len(tokens) /\ UnlinkedStart(n)
          /\ enclosing_ast' = {})
        => (tokens'[n].fix.correct_indent = {} /\ ~ReportsIndentation)]_vars

\* C13, amended: with indentation enabled, a first-in-line statement-start
\* token without an AST link, with no enclosing AST tracked, is held to the
\* indentation of the statement before it: current_indent is left as it is,
\* correct_indent is set to tab_width * current_indent, and the indentation
\* diagnostic is emitted exactly when the token starts at another column.
C13_UnlinkedStartKeepsIndent ==
    [][(pc = "stage3" /\ n <= Len(tokens) /\ UnlinkedStart(n)
          /\ enclosing_ast' = {})
        => /\ current_indent' = current_indent
           /\ tokens'[n].fix.correct_indent = {cfg.tab_width * current_indent}
           /\ ReportsIndentation
                <=> tokens[n].col_start # cfg.tab_width * current_indent]_vars

\* After a parse error an indented token that starts a statement has been
\* reported and is to be moved to column 0
C13_Witness ==
    /\ pc = "done" /\ ParseFailed /\ Active("indentation")
    /\ \E i \in 1..Len(tokens) :
          /\ UnlinkedStart(i) /\ enclosing_ast = {}
          /\ tokens[i].col_start = 2
          /\ tokens[i].fix.correct_indent = {0}
          /\ \E j \in Issues(mh) :
                /\ mh[j].tok = i
                /\ StartsWith(mh[j].message, "indentation not correct")

-----------------------------------------------------------------------------
(* Properties of the rules on the file and on its lines *)

\* How many times the message has been emitted
Count(message) ==
    Cardinality({i \in Issues(mh) : mh[i].message = message})

\* The last line of the text is empty, and is not the only one
TrailingBlankLines ==
    LET lines == SplitLines(text)
    IN  Len(lines) >= 2 /\ lines[Len(lines)] = ""

MissingFinalNewline ==
    ~TrailingBlankLines /\ Len(text) > 0 /\ Char(text, Len(text)) # "\n"

\* What eof_newlines is to have emitted for the text
EofNewlinesEmitted ==
    /\ Count("trailing blank lines at end of file")
          = (IF TrailingBlankLines THEN 1 ELSE 0)
    /\ Count("file should end with a new line")
          = (IF MissingFinalNewline THEN 1 ELSE 0)
    /\ Count("trailing blank lines at end of file")
          + Count("file should end with a new line") <= 1

\* C14 as claimed: for every file that is not empty, also one of whitespace
\* and newlines only, eof_newlines emits "trailing blank lines at end of
\* file" exactly when there are at least 2 lines and the last is empty,
\* otherwise "file should end with a new line" exactly when the last
\* character is not a newline, and never both.
C14_EofNewlinesEveryFile ==
    (pc # "start" /\ Len(text) > 0) => EofNewlinesEmitted

\* C14, amended: the same for every file whose text is not only whitespace
\* and newlines; for a text of whitespace and newlines only process_wp
\* returns before the rule is applied and nothing is emitted.
C14_EofNewlinesVisibleText ==
    pc # "start" =>
        IF Len(Strip(text)) > 0 THEN EofNewlinesEmitted ELSE mh = <<>>

\* A file that ends with a blank line after its text has been processed and
\* reported
C14_Witness ==
    /\ pc = "done" /\ Len(Strip(text)) > 0 /\ TrailingBlankLines
    /\ Count("trailing blank lines at end of file") = 1

\* Line l of the text is blank: empty once its whitespace is stripped
BlankLine(l) == Len(Strip(SplitLines(text)[l])) = 0

\* The lines consecutive_blanks has reported, with repetitions
BlankReports ==
    [i \in {j \in Issues(mh) :
               mh[j].message = "more than one consecutive blank line"}
       |-> mh[i].line]

\* C15: consecutive_blanks, applied to the lines of a file in order, has
\* reported, once each, exactly the lines seen so far that are blank and
\* follow a blank line (so a run of k blank lines has k-1 reports, on its
\* 2nd to k-th line, and a single blank line has none), and is_blank tells
\* whether the last line seen is blank: a line that is not blank resets it.
C15_ConsecutiveBlanks ==
    (pc = "stage2") =>
        /\ \A l \in 1..(line_no - 1) :
              Cardinality({i \in DOMAIN BlankReports : BlankReports[i] = l})
                 = (IF l > 1 /\ BlankLine(l) /\ BlankLine(l - 1) THEN 1 ELSE 0)
        /\ \A i \in DOMAIN BlankReports : BlankReports[i] \in 1..(line_no - 1)
        /\ is_blank = (line_no > 1 /\ BlankLine(line_no - 1))

\* Every line of a file has been seen that has a run of three blank lines
\* after a line of text, reported on its second and third line
C15_Witness ==
    /\ pc = "stage2" /\ line_no = Len(SplitLines(text)) + 1
    /\ Len(SplitLines(text)) = 4
    /\ ~BlankLine(1) /\ BlankLine(2) /\ BlankLine(3) /\ BlankLine(4)
    /\ {BlankReports[i] : i \in DOMAIN BlankReports} = {3, 4}

-----------------------------------------------------------------------------
(* Properties of the rules on operators and continuations *)

\* The analysis is at a binary operator that is not a power operator, with
\* operator_whitespace enabled
AtPlainBinaryOperator ==
    /\ pc = "stage3" /\ n <= Len(tokens)
    /\ Active("operator_whitespace")
    /\ ~tokens[n].anonymous /\ tokens[n].kind = "OPERATOR"
    /\ ~tokens[n].fix.unary_operator /\ tokens[n].fix.binary_operator
    /\ tokens[n].value \notin PowerOperators

\* The step emits the message
Emits(message) ==
    \E i \in NewMessages : mh'[i].op = "style_issue" /\ mh'[i].message = message

\* C16 as claimed: with operator_whitespace enabled a binary operator other
\* than ^ and .^ is diagnosed whenever the whitespace to a neighbour in its
\* line is not exactly one space (none, or two and more), and is not
\* diagnosed when both gaps are one space.
C16_OperatorExactlyOneSpace ==
    [][AtPlainBinaryOperator =>
        (Emits("non power binary operator must be surrounded by whitespace")
           <=> \/ HasPrevInLine(tokens, n) /\ WsBefore(tokens, n) # 1
               \/ HasNextInLine(tokens, n) /\ WsAfter(tokens, n) # 1)]_vars

\* C16, amended: with operator_whitespace enabled a binary operator other
\* than ^ and .^ is diagnosed exactly when it touches a neighbour in its
\* line (a gap of 0 on either side); it is not diagnosed for gaps of one
\* space and not for gaps of two and more.
C16_OperatorAtLeastOneSpace ==
    [][AtPlainBinaryOperator =>
        (Emits("non power binary operator must be surrounded by whitespace")
           <=> \/ HasPrevInLine(tokens, n) /\ WsBefore(tokens, n) = 0
               \/ HasNextInLine(tokens, n) /\ WsAfter(tokens, n) = 0)]_vars

\* A binary + with two spaces on each side has been analysed: nothing is
\* reported and no whitespace is asked for
C16_Witness ==
    /\ pc = "analysed" /\ Active("operator_whitespace")
    /\ ~tokens[2].anonymous /\ tokens[2].kind = "OPERATOR"
    /\ tokens[2].fix.binary_operator /\ tokens[2].value = "+"
    /\ HasPrevInLine(tokens, 2) /\ WsBefore(tokens, 2) = 2
    /\ HasNextInLine(tokens, 2) /\ WsAfter(tokens, 2) = 2
    /\ \A i \in Issues(mh) : mh[i].tok # 2
    /\ ~tokens[2].fix.ensure_ws_before /\ ~tokens[2].fix.ensure_ws_after

\* The analysis has finished, with useless_continuation, on the tokens of
\* the line descs, the continuation being token 4
ContinuationAnalysed(descs) ==
    /\ pc = "analysed"
    /\ Active("useless_continuation")
    /\ KindsOf(tokens) = KindsOf(Layout(descs))

\* The "useless line continuation" issues, by the token they are located at
UselessReports ==
    [i \in {j \in Issues(mh) : mh[j].message = "useless line continuation"}
       |-> mh[i].tok]

\* C17 as claimed: with useless_continuation enabled, x = 1 ... followed by
\* the line + 2; gets exactly one "useless line continuation" issue, on the
\* continuation, and replace_with_newline on the continuation.
C17_ContinuedLineUseless ==
    ContinuationAnalysed(ContinuedLine) =>
        /\ Cardinality(DOMAIN UselessReports) = 1
        /\ \A i \in DOMAIN UselessReports : UselessReports[i] = 4
        /\ tokens[4].fix.replace_with_newline

\* C17, amended: with useless_continuation enabled, x = 1 ... followed by
\* the line + 2; gets no "useless line continuation" issue, and neither
\* replace_with_newline nor delete is set on the continuation; the one issue
\* and replace_with_newline are what x = 1 ... gets when a newline follows
\* the continuation.
C17_ContinuedLineKept ==
    /\ ContinuationAnalysed(ContinuedLine) =>
          /\ DOMAIN UselessReports = {}
          /\ ~tokens[4].fix.replace_with_newline /\ ~tokens[4].fix.delete
    /\ ContinuationAnalysed(DanglingLine) =>
          /\ Cardinality(DOMAIN UselessReports) = 1
          /\ \A i \in DOMAIN UselessReports : UselessReports[i] = 4
          /\ tokens[4].fix.replace_with_newline /\ ~tokens[4].fix.delete

\* The analysis has finished with useless_continuation alone on
\* x = 1 ... followed by + 2; and has reported nothing
C17_Witness ==
    /\ ContinuationAnalysed(ContinuedLine)
    /\ cfg.active = {"useless_continuation"}
    /\ [i \in 1..Len(tokens) |-> tokens[i].col_start] = <<0, 2, 4, 6, 0, 2, 3>>
    /\ tokens[5].line = 2 /\ tokens[5].first_in_line
    /\ mh = <<>>

-----------------------------------------------------------------------------
(* Properties of the order of the steps of process_wp *)

\* The positions of the messages a step hands to the sink
Handed == (Len(mh) + 1)..Len(mh')

\* Stage 2 has seen every line of the text
LinesSeen == pc # "start" /\ line_no = Len(SplitLines(text)) + 1

\* C18: process_wp runs its steps in a fixed order on a file that is not
\* empty. A Stage 1 diagnostic is handed over before anything else; a Stage 2
\* diagnostic is handed over while lines remain and after Stage 1 diagnostics
\* and Stage 2 diagnostics only; what the lexer, the parser and the naming
\* check register is handed over once every line has been seen, after the
\* diagnostics of Stage 1 and Stage 2 only; a Stage 3 diagnostic is handed
\* over once
\* every line has been seen and the text is lexed, and before the write. The
\* tabs are expanded only with the fix option, in the step that follows the
\* last line of Stage 2 and precedes lexing, and with the fix option that
\* step does expand them. The replayed text is written only in the step that
\* follows the end of Stage 3, after which nothing more of Stage 1 to 3 is
\* reported.
C18_FixedOrder ==
    [][pass' = pass =>
        /\ \A i \in Handed :
              /\ mh'[i].stage = 1 => pc = "start" /\ mh = <<>>
              /\ mh'[i].stage = 2 =>
                    /\ pc = "stage2" /\ line_no <= Len(SplitLines(text))
                    /\ ~tabs_corrected /\ tokens = <<>>
                    /\ \A j \in 1..Len(mh) : mh[j].stage \in {1, 2}
              /\ mh'[i].stage = 0 =>
                    /\ \/ pc = "lex" /\ tokens = <<>> /\ pc' = "done"
                       \/ pc = "parse" /\ parse_tree' = {}
                       \/ pc = "naming" /\ parse_tree # {}
                    /\ LinesSeen /\ pc' \in {"stage3", "done"}
                    /\ tabs_corrected = autofix /\ written = {}
                    /\ \A j \in 1..Len(mh) : mh[j].stage \in {1, 2}
              /\ mh'[i].stage = 3 =>
                    /\ pc = "stage3" /\ LinesSeen /\ n <= Len(tokens)
                    /\ tabs_corrected = autofix /\ written = {}
              /\ mh'[i].stage \in {1, 2, 3} => Len(Strip(text)) # 0
        /\ (text' # text \/ tabs_corrected' # tabs_corrected) =>
              /\ autofix /\ pc = "stage2" /\ LinesSeen /\ pc' = "lex"
              /\ tokens = <<>> /\ mh' = mh
              /\ text' = ExpandTabs(text, 0, cfg.tab_width)
        /\ (pc = "stage2" /\ pc' = "lex") => tabs_corrected' = autofix
        /\ written' # written =>
              /\ autofix /\ pc = "analysed" /\ pc' = "done"
              /\ n > Len(tokens) /\ mh' = mh
              /\ written' = {Replay(tokens)}
        /\ written # {} => mh' = mh
      ]_vars

\* A file with a tab has been processed with the fix option set: Stage 1,
\* Stage 2 and Stage 3 have reported, the tab has been reported and
\* expanded, and the replayed text has been written
C18_Witness ==
    /\ pc = "done" /\ pass = 1 /\ autofix /\ tabs_corrected
    /\ written # {} /\ ~Contains(text, "\t")
    /\ \E i, j, k \in Issues(mh) :
          /\ mh[i].stage = 1 /\ mh[j].stage = 2 /\ mh[k].stage = 3
          /\ mh[j].message = "tab is not allowed"

-----------------------------------------------------------------------------
(* Properties of the directives on continuations *)

\* Token i is a continuation that follows, in its line, a token that flags
\* continuations and ends a statement, and both continuation rules are on
AfterFlaggedTerminator(i) ==
    /\ Active("dangerous_continuation") /\ Active("useless_continuation")
    /\ i > 1 /\ i <= Len(tokens)
    /\ tokens[i].kind = "CONTINUATION"
    /\ HasNextInLine(tokens, i - 1)
    /\ tokens[i - 1].fix.flag_continuations
    /\ tokens[i - 1].fix.statement_terminator

\* C19 as claimed: after Stage 3 no token's fix record has both delete and
\* replace_with_newline set; a continuation that follows in its line a token
\* with flag_continuations and statement_terminator, with
\* dangerous_continuation and useless_continuation enabled, has exactly one
\* of the two.
C19_DeleteOrReplace ==
    pc = "analysed" =>
        \A i \in 1..Len(tokens) :
            /\ ~(tokens[i].fix.delete /\ tokens[i].fix.replace_with_newline)
            /\ AfterFlaggedTerminator(i) =>
                  tokens[i].fix.delete # tokens[i].fix.replace_with_newline

\* The analysis has left a continuation with both directives
C19_Both ==
    /\ pc = "analysed"
    /\ \E i \in 1..Len(tokens) :
          /\ AfterFlaggedTerminator(i)
          /\ tokens[i].fix.delete /\ tokens[i].fix.replace_with_newline

-----------------------------------------------------------------------------
(* Properties of the rewriting of comments *)

\* The messages of the whitespace_comments rule about the text of a comment
AboutCommentText(message) ==
    \/ StartsWith(message, "comment body must be separated")
    \/ StartsWith(message, "MATLAB pragma must not contain whitespace")

\* The comments the rule leaves alone: pragmas, miss_hit pragmas, block
\* comments and the delimiters of block comments
LeftAlone(token) ==
    \/ IsPragma(token.raw_text)
    \/ StartsWith(token.raw_text, "%|")
    \/ token.block_comment
    \/ IsBlockDelimiter(token.raw_text)

\* C20: the rewriting of comments by whitespace_comments converges in one
\* step: when the analysis is applied again to the comments it has left,
\* no step changes the raw text of a token or reports on the body or the
\* pragma of a comment; and a comment that matches ^%#[a-zA-Z], starts with
\* %|, is in a block comment or is the delimiter of one is never rewritten or
\* reported.
C20_CommentRewriteConverges ==
    [][/\ Len(tokens') = Len(tokens)
       /\ pass = 2 =>
             /\ \A i \in 1..Len(tokens) : tokens'[i].raw_text = tokens[i].raw_text
             /\ \A i \in Handed : ~AboutCommentText(mh'[i].message)
       /\ \A i \in 1..Len(tokens) :
             (tokens[i].kind = "COMMENT" /\ LeftAlone(tokens[i])) =>
                 /\ tokens'[i].raw_text = tokens[i].raw_text
                 /\ (pc = "stage3" /\ n = i) =>
                       \A j \in Handed : ~AboutCommentText(mh'[j].message)
      ]_vars

\* The pragma of a comment has been reported and rewritten to %#a, and the
\* analysis has been applied again to the rewritten comment
C20_Witness ==
    /\ pass = 2 /\ pc = "analysed"
    /\ Len(tokens) = 1 /\ tokens[1].kind = "COMMENT"
    /\ tokens[1].raw_text = "%#a"
    /\ Len(mh) = 1
    /\ StartsWith(mh[1].message, "MATLAB pragma must not contain whitespace")

-----------------------------------------------------------------------------
(* Properties of the justifications *)

\* Token k is a comment or a continuation with the marker in its value
Marked(k) ==
    /\ tokens[k].kind \in {"COMMENT", "CONTINUATION"}
    /\ Contains(tokens[k].value, "mh:ignore_style")

\* The positions in the messages where token k is registered
Registrations(k) ==
    {i \in 1..Len(mh) : mh[i].op = "register_justification" /\ mh[i].tok = k}

\* The positions of the Stage 3 diagnostics located at token k
ReportsAt(k) ==
    {j \in Issues(mh) : mh[j].stage = 3 /\ mh[j].tok = k}

Misleading == "this continuation is dangerously misleading"

\* C21 as claimed: a comment or continuation with the marker is registered
\* exactly once, and before every Stage 3 diagnostic located at it,
\* "this continuation is dangerously misleading" included.
C21_RegisteredBeforeEveryReport ==
    pc = "analysed" =>
        \A k \in 1..Len(tokens) :
            Marked(k) =>
                /\ Cardinality(Registrations(k)) = 1
                /\ \A i \in Registrations(k) : \A j \in ReportsAt(k) : i < j

\* C21, amended: a comment or continuation with the marker is registered
\* exactly once, in its own iteration of the loop; the Stage 3 diagnostics
\* located at it follow the registration, except "this continuation is
\* dangerously misleading", which is emitted in the iteration of the token
\* before the continuation and so precedes the registration.
C21_RegisteredInOwnIteration ==
    pc = "analysed" =>
        \A k \in 1..Len(tokens) :
            Marked(k) =>
                /\ Cardinality(Registrations(k)) = 1
                /\ \A i \in Registrations(k) : \A j \in ReportsAt(k) :
                      IF mh[j].message = Misleading THEN j < i ELSE i < j

\* A continuation with the marker has been reported as misleading, then
\* registered, then reported for the whitespace before it
C21_Witness ==
    /\ pc = "analysed"
    /\ \E k \in 1..Len(tokens) :
          /\ Marked(k) /\ tokens[k].kind = "CONTINUATION"
          /\ \E i \in Registrations(k) : \E j, l \in ReportsAt(k) :
                /\ j < i /\ i < l
                /\ mh[j].message = Misleading

-----------------------------------------------------------------------------
(* Properties of the copyright verdict *)

\* The analysis starts with the copyright rule in force, on tokens whose
\* leading comments have no conforming notice that names a configured entity
StartsWithoutNotice ==
    /\ pc = "stage3" /\ n = 1 /\ mh = <<>>
    /\ CopyrightActive
    /\ tokens # <<>>
    /\ ~\E v \in HeaderComments : NamesEntity(v)

\* C22 as claimed: with copyright_notice active and the file not exempt as
\* embedded code, a pass over tokens whose leading comments have no
\* conforming notice naming a configured entity eventually emits a copyright
\* diagnostic, also when the tokens are only comments and anonymous tokens.
C22_VerdictReached ==
    StartsWithoutNotice ~> (Emitted(mh) # <<>>)

\* The analysis has returned on tokens that are only comments and anonymous
\* tokens and have no notice, with nothing about copyright emitted
C22_NoVerdict ==
    /\ pc = "analysed" /\ CopyrightActive
    /\ tokens # <<>> /\ HeaderEnd = 0
    /\ cfg.copyright_entity # <<>>
    /\ ~\E v \in HeaderComments : Conforming(v) \/ LooseCopyright(v)
    /\ in_copyright_notice
    /\ Emitted(mh) = <<>>

====
